---------------------------- MODULE Spec2Model ----------------------------
(***************************************************************************)
(* A model of the education x occupation heatmap pipeline                  *)
(* (src/educ_occ_heatmap.py), of the dashboard page                        *)
(* (src/pages/1_Dashboard.py) and of the migration page                    *)
(* (src/pages/2_MigrationData.py).                                         *)
(*                                                                         *)
(* Data frames are sequences of rows (records keyed by the source's column *)
(* names) and an optional data frame is a record with a `none` flag.  The  *)
(* float64 columns of estimate_joint and the Percentage of the dashboard   *)
(* are computed as float64 computes them, every operation rounded to 53    *)
(* bits; the gender shares are the quotients of the totals as rationals in *)
(* lowest terms [n, d].  A Python string whose characters matter is the    *)
(* sequence of its characters.                                             *)
(***************************************************************************)
EXTENDS Integers, Sequences, FiniteSets, TLC

VARIABLES
    file,        \* the CSV on disk that load_data reads
    pc,          \* which call completed last
    educ_in,     \* argument educ_df of the last estimate_joint call
    occ_in,      \* argument occ_df of the last estimate_joint call
    joint_df,    \* the joint table handed to extract_insight
    insight,     \* the result of extract_insight
    hm,          \* everything get_heatmaps computed in its last call
    data,        \* the tables the dashboard page loaded
    dash,        \* the dashboard's top-destinations rendering
    label,       \* the display name a place of the dashboard page produced
    main,        \* data_dict["main"] of the migration page
    prep,        \* what prepare_main_df returned
    page,        \* the script the process runs
    passed,      \* the tables handed to estimate_joint, as they were handed
    disk,        \* the source files of the page, as they are on disk
    proc,        \* what the process has read and what st.cache_data holds
    load,        \* how the last load of the page went
    sess,        \* st.session_state of every session of the dashboard page
    actor,       \* the session whose script ran last
    selected,    \* the year the page's year control returned
    reordered,   \* get_heatmaps over the CSV with its columns reordered
    metrics,     \* what render_metrics of the dashboard page returned
    filtered,    \* what calculate_filtered_data of the dashboard page returned
    cum_total,   \* the cumulative total of the migration page's sidebar
    gender,      \* the tables of a gender/occupation page run
    widgets      \* what the sidebar widgets returned in the last run

\* the variables of the heatmap module
heatVars == <<file, educ_in, occ_in, joint_df, insight, hm>>

\* the variables of the top-destinations block
dashVars == <<data, dash>>

\* the variables of the name normalization
nameVars == <<label, main, prep>>

\* the variables of the loaders
loadVars == <<disk, proc, load>>

\* the script of the process and the sessions it serves
\* what the blocks of the pages computed
viewVars == <<metrics, filtered, cum_total, gender, widgets>>

ctxVars == <<page, sess, actor, selected, reordered, viewVars>>

\* the variables of the pages other than the top-destinations block
pageVars == <<nameVars, loadVars, ctxVars, passed>>

vars == <<file, pc, educ_in, occ_in, joint_df, insight, hm, data, dash,
          label, main, prep, page, passed, disk, proc, load, sess, actor,
          selected, reordered, metrics, filtered, cum_total, gender,
          widgets>>

----------------------------------------------------------------------------
(* Bounds of the model.                                                    *)

\* largest count of a category in the inputs handed to estimate_joint
MaxCount == 2
\* largest count in a cell of a narrow source table
MaxCell == 1
\* largest migrant count in a cell of the countries table
MaxMigrants == 2
\* longest string of the free keys and destinations
MaxStr == 3
\* most calls that read the CSV, and most runs of a page, in one process
MaxCalls == 2

----------------------------------------------------------------------------
(* Sequences and rationals.                                                *)

Range(s) == { s[i] : i \in 1..Len(s) }

Min(a, b) == IF a <= b THEN a ELSE b

Max(a, b) == IF a >= b THEN a ELSE b

RECURSIVE SeqSum(_)
SeqSum(s) == IF s = <<>> THEN 0 ELSE Head(s) + SeqSum(Tail(s))

RECURSIVE GCD(_, _)
GCD(a, b) == IF b = 0 THEN a ELSE GCD(b, a % b)

\* the rational n/d (d > 0, n >= 0) in lowest terms
Rat(n, d) == LET g == GCD(n, d) IN [n |-> n \div g, d |-> d \div g]

RatAdd(p, q) == Rat(p.n * q.d + q.n * p.d, p.d * q.d)

----------------------------------------------------------------------------
(* Double precision: a quotient of two integers times an integer, as       *)
(* Python and numpy compute it (round to nearest, ties to even, 53 bits).  *)

\* floor(log2(n / d)) for n, d > 0
RECURSIVE Log2Floor(_, _)
Log2Floor(n, d) ==
    IF n < d THEN Log2Floor(2 * n, d) - 1
    ELSE IF n >= 2 * d THEN Log2Floor(n, 2 * d) + 1
    ELSE 0

\* 2^e mod o
RECURSIVE PowMod2(_, _)
PowMod2(e, o) == IF e = 0 THEN 1 % o ELSE (2 * PowMod2(e - 1, o)) % o

\* 2^e
RECURSIVE Pow2(_)
Pow2(e) == IF e = 0 THEN 1 ELSE 2 * Pow2(e - 1)

\* the error of the double t / o against the quotient, in units of
\* 1 / (o * 2^(52 - floor(log2(t / o)))), for t, o > 0: the remainder of
\* the 53-bit quotient, negative when the double lies below the quotient.
\* A remainder of exactly o / 2 would need a quotient of 54 bits and does
\* not occur for integers of the width of the model.
QuotientError(t, o) ==
    LET j == 52 - Log2Floor(t, o)
        r == ((t % o) * PowMod2(j, o)) % o
    IN  IF 2 * r < o THEN 0 - r ELSE o - r

\* where the double m * (t / o) lies against the number m * t / o when
\* that number is an integer or a half of one (and so a double), for
\* m, t, o > 0: -1 below it, 0 on it, 1 above it. The error of the quotient
\* is multiplied by m and the product is rounded to the nearest double;
\* the doubles below a power of two lie half as far apart as those above.
DoubleProductSide(m, t, o) ==
    LET error == QuotientError(t, o)
        Ex == Log2Floor(m * t, o)
        d == Pow2(Ex - Log2Floor(t, o))
        power_of_two == IF Ex >= 0 THEN m * t = o * Pow2(Ex)
                        ELSE m * t * Pow2(0 - Ex) = o
    IN  IF error > 0 THEN (IF 2 * m * error > o * d THEN 1 ELSE 0)
        ELSE IF error = 0 THEN 0
        ELSE IF power_of_two
             THEN (IF 4 * m * (0 - error) > o * d THEN -1 ELSE 0)
             ELSE (IF 2 * m * (0 - error) > o * d THEN -1 ELSE 0)

----------------------------------------------------------------------------
(* float64 values, held exactly. A natural number of any size is a         *)
(* sequence of limbs of LimbBits bits, the least significant first and the *)
(* last one not 0; a float64 is the number m * 2^e with m odd (or 0 with   *)
(* e = 0), so that equal numbers are equal records.                        *)

\* the bits of one limb and the number of values it takes
LimbBits == 13

LimbSize == Pow2(LimbBits)

RECURSIVE BigOfInt(_)
BigOfInt(n) == IF n = 0 THEN <<>> ELSE <<n % LimbSize>> \o BigOfInt(n \div LimbSize)

LimbAt(a, i) == IF i <= Len(a) THEN a[i] ELSE 0

RECURSIVE BigTrim(_)
BigTrim(a) ==
    IF a /= <<>> /\ a[Len(a)] = 0 THEN BigTrim(SubSeq(a, 1, Len(a) - 1)) ELSE a

RECURSIVE BigAddFrom(_, _, _, _)
BigAddFrom(a, b, i, carry) ==
    IF i > Len(a) /\ i > Len(b) THEN BigOfInt(carry)
    ELSE LET s == LimbAt(a, i) + LimbAt(b, i) + carry
         IN  <<s % LimbSize>> \o BigAddFrom(a, b, i + 1, s \div LimbSize)

BigAdd(a, b) == BigAddFrom(a, b, 1, 0)

\* a * k for an integer 0 <= k <= 2^17
RECURSIVE BigTimesFrom(_, _, _, _)
BigTimesFrom(a, k, i, carry) ==
    IF i > Len(a) THEN BigOfInt(carry)
    ELSE LET s == a[i] * k + carry
         IN  <<s % LimbSize>> \o BigTimesFrom(a, k, i + 1, s \div LimbSize)

BigTimes(a, k) == IF k = 0 THEN <<>> ELSE BigTimesFrom(a, k, 1, 0)

\* a * LimbSize^n
BigShiftLimbs(a, n) == IF a = <<>> THEN <<>> ELSE [i \in 1..n |-> 0] \o a

RECURSIVE BigMulFrom(_, _, _)
BigMulFrom(a, b, j) ==
    IF j > Len(b) THEN <<>>
    ELSE BigAdd(BigShiftLimbs(BigTimes(a, b[j]), j - 1), BigMulFrom(a, b, j + 1))

BigMul(a, b) == BigMulFrom(a, b, 1)

\* the quotient q and the remainder r of the limbs i, ..., 1 of a behind
\* the remainder rem of the limbs above them, by 0 < d <= 2^17
RECURSIVE BigDivFrom(_, _, _, _)
BigDivFrom(a, d, i, rem) ==
    IF i = 0 THEN [q |-> <<>>, r |-> rem]
    ELSE LET cur == rem * LimbSize + a[i]
             rest == BigDivFrom(a, d, i - 1, cur % d)
         IN  [q |-> rest.q \o <<cur \div d>>, r |-> rest.r]

BigDiv(a, d) ==
    LET qr == BigDivFrom(a, d, Len(a), 0) IN [q |-> BigTrim(qr.q), r |-> qr.r]

\* a * 2^k and floor(a / 2^k)
BigShiftLeft(a, k) ==
    BigShiftLimbs(BigTimes(a, Pow2(k % LimbBits)), k \div LimbBits)

BigShiftRight(a, k) ==
    IF k \div LimbBits >= Len(a) THEN <<>>
    ELSE BigDiv(SubSeq(a, (k \div LimbBits) + 1, Len(a)), Pow2(k % LimbBits)).q

RECURSIVE BigLeqFrom(_, _, _)
BigLeqFrom(a, b, i) ==
    IF i = 0 THEN TRUE
    ELSE IF a[i] /= b[i] THEN a[i] < b[i]
    ELSE BigLeqFrom(a, b, i - 1)

BigLeq(a, b) ==
    IF Len(a) /= Len(b) THEN Len(a) < Len(b) ELSE BigLeqFrom(a, b, Len(a))

\* the number of bits of n and of a
RECURSIVE IntBits(_)
IntBits(n) == IF n = 0 THEN 0 ELSE 1 + IntBits(n \div 2)

BitLength(a) ==
    IF a = <<>> THEN 0 ELSE LimbBits * (Len(a) - 1) + IntBits(a[Len(a)])

\* the number of zero bits below the lowest one bit of n > 0 and of a > 0
RECURSIVE IntTrailingZeros(_)
IntTrailingZeros(n) == IF n % 2 = 1 THEN 0 ELSE 1 + IntTrailingZeros(n \div 2)

RECURSIVE BigTrailingZeros(_)
BigTrailingZeros(a) ==
    IF a[1] = 0 THEN LimbBits + BigTrailingZeros(Tail(a))
    ELSE IntTrailingZeros(a[1])

\* the number m * 2^e
Dyadic(m, e) ==
    IF m = <<>> THEN [m |-> <<>>, e |-> 0]
    ELSE LET z == BigTrailingZeros(m)
         IN  [m |-> BigShiftRight(m, z), e |-> e + z]

\* the float64 of an integer 0 <= n < 2^31
Float64(n) == Dyadic(BigOfInt(n), 0)

\* x * 2^k
Scaled(x, k) == IF x.m = <<>> THEN x ELSE [x EXCEPT !.e = @ + k]

\* x + y, x * k for an integer 0 <= k <= 2^17, and x <= y, all exact
DyadicAdd(x, y) ==
    IF x.m = <<>> THEN y
    ELSE IF y.m = <<>> THEN x
    ELSE LET e == Min(x.e, y.e)
         IN  Dyadic(BigAdd(BigShiftLeft(x.m, x.e - e),
                           BigShiftLeft(y.m, y.e - e)), e)

DyadicTimes(x, k) == Dyadic(BigTimes(x.m, k), x.e)

DyadicLeq(x, y) ==
    IF x.m = <<>> THEN TRUE
    ELSE IF y.m = <<>> THEN FALSE
    ELSE LET e == Min(x.e, y.e)
         IN  BigLeq(BigShiftLeft(x.m, x.e - e), BigShiftLeft(y.m, y.e - e))

RECURSIVE DyadicSum(_)
DyadicSum(s) ==
    IF s = <<>> THEN Float64(0) ELSE DyadicAdd(Head(s), DyadicSum(Tail(s)))

\* the float64 nearest to the number x, the one with the even mantissa
\* when x lies halfway between two: x is cut to 53 bits, and as x.m is odd
\* the bits cut off are exactly a half when one bit is cut off
RoundToFloat64(x) ==
    LET k == BitLength(x.m) - 53
    IN  IF k <= 0 THEN x
        ELSE LET q == BigShiftRight(x.m, k)
                 round_bit == LimbAt(BigShiftRight(x.m, k - 1), 1) % 2
                 up == round_bit = 1 /\ (k > 1 \/ q[1] % 2 = 1)
             IN  Dyadic(IF up THEN BigAdd(q, <<1>>) ELSE q, x.e + k)

\* c / t of two integers, 0 <= c and 0 < t <= 2^17, in float64 (numpy's
\* true_divide): the 53-bit quotient rounded to nearest by its remainder
Float64Div(c, t) ==
    IF c = 0 THEN Float64(0)
    ELSE LET s == 52 - Log2Floor(c, t)
             qr == BigDiv(BigShiftLeft(BigOfInt(c), s), t)
             up == 2 * qr.r > t \/ (2 * qr.r = t /\ qr.q[1] % 2 = 1)
         IN  Dyadic(IF up THEN BigAdd(qr.q, <<1>>) ELSE qr.q, 0 - s)

\* x * y in float64
Float64Mul(x, y) == RoundToFloat64(Dyadic(BigMul(x.m, y.m), x.e + y.e))

\* the sequences that hold every element of the set S exactly once
RECURSIVE Perms(_)
Perms(S) ==
    IF S = {} THEN { <<>> }
    ELSE UNION { { <<x>> \o p : p \in Perms(S \ {x}) } : x \in S }

----------------------------------------------------------------------------
(* Column lists.                                                           *)

EDUCATION_COLS ==
    << "college_graduate", "college_level",
       "elementary_graduate", "elementary_level",
       "high_school_graduate", "high_school_level",
       "no_formal_education", "non-formal_education",
       "not_reported_/_no_response", "not_of_schooling_age",
       "post_graduate", "post_graduate_level",
       "vocational_graduate", "vocational_level" >>

OCCUPATION_COLS ==
    << "administrative_workers", "clerical_workers",
       "equipment_operators,_&_laborers", "housewives",
       "members_of_the_armed_forces", "minors_(below_7_years_old)",
       "no_occupation_reported", "out_of_school_youth",
       "prof'l,_tech'l,_&_related_workers", "refugees",
       "retirees", "sales_workers", "service_workers",
       "students", "workers_&_fishermen" >>

----------------------------------------------------------------------------
(* Data frames.                                                            *)

\* the value None where a data frame is expected
NoneDF == [none |-> TRUE, rows |-> <<>>]

\* a data frame with the given rows
DF(rows) == [none |-> FALSE, rows |-> rows]

\* DataFrame.empty
IsEmpty(df) == Len(df.rows) = 0

\* a row of the long education table
EducRow(y, c, n) ==
    [year |-> y, Educational_Attainment |-> c, Education_Count |-> n]

\* a row of the long occupation table
OccRow(y, c, n) ==
    [year |-> y, Occupation |-> c, Occupation_Count |-> n]

\* the column s[i].f of a data frame's rows
Column(s, f) == [i \in 1..Len(s) |-> s[i][f]]

----------------------------------------------------------------------------
(* Data frames as objects: heap[ref] is the table the name ref is bound    *)
(* to, so that two names bound to one object see each other's writes.      *)

\* df.copy() handing back the object itself instead of a new one
copy_Alias(heap, ref) == [heap |-> heap, ref |-> ref]

\* df.copy(): a new object holding the rows of the object at ref
copy(heap, ref) == [heap |-> Append(heap, heap[ref]), ref |-> Len(heap) + 1]

\* the new object an expression that builds a table (read_csv, a boolean
\* selection, melt, merge) evaluates to
frame_new(heap, table) == [heap |-> Append(heap, table), ref |-> Len(heap) + 1]

\* df[column] = values: the column written into the object at ref, in
\* place; values holds one cell for every row
setitem(heap, ref, column, values) ==
    LET rows == heap[ref].rows
        written == [i \in 1..Len(rows) |-> (column :> values[i]) @@ rows[i]]
    IN  [heap EXCEPT ![ref].rows = SubSeq(written, 1, Len(rows))]

----------------------------------------------------------------------------
(* estimate_joint.                                                         *)

\* Merge pairing the rows by position instead of crossing them
Merge_Zip(ed, oc) ==
    [k \in 1..Min(Len(ed), Len(oc)) |-> <<ed[k], oc[k]>>]

\* ed.merge(oc, on=["year", "key"]): the pairs of rows of equal year,
\* in the order of the left rows
Merge(ed, oc) ==
    LET nE == Len(ed)
        nO == Len(oc)
        all == [k \in 1..(nE * nO) |->
                   <<ed[((k - 1) \div nO) + 1], oc[((k - 1) % nO) + 1]>>]
    IN  SelectSeq(all, LAMBDA pr : pr[1].year = pr[2].year)

\* Percent without the factor 100: the product of the two proportions
Percent_Unscaled(ec, oc, total_educ, total_occ) ==
    Float64Mul(Float64Div(ec, total_educ), Float64Div(oc, total_occ))

\* the three float64 columns of a cell: educ_prop = Education_Count /
\* total_educ, occ_prop = Occupation_Count / total_occ, and Percent =
\* (educ_prop * occ_prop) * 100.0, each operation rounded to float64
Percent(ec, oc, total_educ, total_occ) ==
    LET educ_prop == Float64Div(ec, total_educ)
        occ_prop == Float64Div(oc, total_occ)
    IN  Float64Mul(Float64Mul(educ_prop, occ_prop), Float64(100))

\* the cells of small counts, <<Education_Count, Occupation_Count,
\* total_educ, total_occ>>, whose Percent is computed once and held as a
\* table
SmallCells ==
    (0..MaxCount) \X (0..MaxCount) \X (1..(3 * MaxCount)) \X (1..(2 * MaxCount))

SmallPercents ==
    [q \in SmallCells |-> Percent(q[1], q[2], q[3], q[4])] @@ <<>>

\* Percent of a cell, looked up where it is tabulated
PercentOf(ec, oc, total_educ, total_occ) ==
    IF <<ec, oc, total_educ, total_occ>> \in SmallCells
    THEN SmallPercents[<<ec, oc, total_educ, total_occ>>]
    ELSE Percent(ec, oc, total_educ, total_occ)

\* a row of the joint table
JointRow(e, o, total_educ, total_occ) ==
    [year |-> e.year,
     Educational_Attainment |-> e.Educational_Attainment,
     Education_Count |-> e.Education_Count,
     Occupation |-> o.Occupation,
     Occupation_Count |-> o.Occupation_Count,
     Percent |-> PercentOf(e.Education_Count, o.Occupation_Count,
                         total_educ, total_occ)]

\* TotalEduc counting the rows instead of summing the counts
TotalEduc_Count(educ_df) == Len(educ_df.rows)

TotalEduc(educ_df) == SeqSum(Column(educ_df.rows, "Education_Count"))

TotalOcc(occ_df) == SeqSum(Column(occ_df.rows, "Occupation_Count"))

\* estimate_joint without the test of the totals: a zero total gives
\* cells of 0 percent
estimate_joint_SilentZero(educ_df, occ_df) ==
    IF educ_df.none \/ occ_df.none \/ IsEmpty(educ_df) \/ IsEmpty(occ_df)
    THEN NoneDF
    ELSE LET total_educ == TotalEduc(educ_df)
             total_occ == TotalOcc(occ_df)
             m == Merge(educ_df.rows, occ_df.rows)
         IN  DF([k \in 1..Len(m) |->
                   IF total_educ = 0 \/ total_occ = 0
                   THEN [JointRow(m[k][1], m[k][2], 1, 1)
                            EXCEPT !.Percent = Float64(0)]
                   ELSE JointRow(m[k][1], m[k][2], total_educ, total_occ)])

\* the scalar 1 as the column key of a table
KeyOne(df) == [i \in 1..Len(df.rows) |-> 1]

\* a call of estimate_joint on the objects at educ_df and occ_df: the heap
\* the call leaves, and the table it returns. The key column is written
\* into ed and oc; the merge is a new object, and educ_prop, occ_prop and
\* Percent are written into it before the six columns are selected
estimate_joint_call(heap, educ_df, occ_df) ==
    IF heap[educ_df].none \/ heap[occ_df].none
       \/ IsEmpty(heap[educ_df]) \/ IsEmpty(heap[occ_df])
    THEN [heap |-> heap, joint |-> NoneDF]
    ELSE LET total_educ == TotalEduc(heap[educ_df])
             total_occ == TotalOcc(heap[occ_df])
         IN  IF total_educ = 0 \/ total_occ = 0
             THEN [heap |-> heap, joint |-> NoneDF]
             ELSE LET ed == copy(heap, educ_df)
                      oc == copy(ed.heap, occ_df)
                      ed_key == setitem(oc.heap, ed.ref, "key",
                                        KeyOne(oc.heap[ed.ref]))
                      oc_key == setitem(ed_key, oc.ref, "key",
                                        KeyOne(ed_key[oc.ref]))
                      m == Merge(oc_key[ed.ref].rows, oc_key[oc.ref].rows)
                      cells == [k \in 1..Len(m) |->
                                  JointRow(m[k][1], m[k][2],
                                           total_educ, total_occ)]
                      joint == frame_new(oc_key, DF(SubSeq(cells, 1, Len(m))))
                  IN  [heap |-> joint.heap, joint |-> joint.heap[joint.ref]]

\* the two arguments of estimate_joint as the call leaves them
estimate_joint_inputs(educ_df, occ_df) ==
    LET call == estimate_joint_call(<<educ_df, occ_df>>, 1, 2)
    IN  <<call.heap[1], call.heap[2]>>

\* estimate_joint(educ_df, occ_df): the table the call returns, or None
estimate_joint(educ_df, occ_df) ==
    estimate_joint_call(<<educ_df, occ_df>>, 1, 2).joint

----------------------------------------------------------------------------
(* extract_insight.                                                        *)

\* the result (None, None, None)
NoInsight ==
    [none |-> TRUE, Educational_Attainment |-> "", Occupation |-> "",
     Percent |-> Float64(0)]

\* IdxMax taking the first position whatever it holds
IdxMax_First(s) == 1

\* Series.idxmax: the first position holding the largest value
IdxMax(s) ==
    CHOOSE i \in 1..Len(s) :
        /\ \A j \in 1..Len(s) : DyadicLeq(s[j], s[i])
        /\ \A j \in 1..(i - 1) : ~DyadicLeq(s[i], s[j])

\* extract_insight reading the first row instead of the row of idxmax
extract_insight_Head(jdf) ==
    IF jdf.none \/ IsEmpty(jdf)
    THEN NoInsight
    ELSE [none |-> FALSE,
          Educational_Attainment |-> jdf.rows[1].Educational_Attainment,
          Occupation |-> jdf.rows[1].Occupation,
          Percent |-> jdf.rows[1].Percent]

extract_insight(jdf) ==
    IF jdf.none \/ IsEmpty(jdf)
    THEN NoInsight
    ELSE LET row == jdf.rows[IdxMax(Column(jdf.rows, "Percent"))]
         IN  [none |-> FALSE,
              Educational_Attainment |-> row.Educational_Attainment,
              Occupation |-> row.Occupation,
              Percent |-> row.Percent]

----------------------------------------------------------------------------
(* load_data.                                                              *)

\* a cell of the CSV that is missing or, in the year column, not a number
NaN == -1

\* df["year"]: to_numeric(errors="coerce").fillna(0).astype(int)
\* the other columns: df.fillna(0)
FillNa(v) == IF v = NaN THEN 0 ELSE v

\* the table load_data returns, or the ValueError it raises when the CSV
\* has no "year" column
load_data(f) ==
    IF ~f.hasYear
    THEN [raised |-> TRUE, columns |-> <<>>, rows |-> <<>>]
    ELSE [raised |-> FALSE,
          columns |-> <<"year">> \o f.cols,
          rows |-> [i \in 1..Len(f.rows) |->
                      [c \in DOMAIN f.rows[i] |-> FillNa(f.rows[i][c])]]]

\* YearFilter keeping the rows up to the year instead of the rows of it
YearFilter_UpTo(df, year) ==
    [raised |-> FALSE, columns |-> df.columns,
     rows |-> SelectSeq(df.rows, LAMBDA r : r["year"] <= year)]

\* df[df["year"] == int(year)]
YearFilter(df, year) ==
    [raised |-> FALSE, columns |-> df.columns,
     rows |-> SelectSeq(df.rows, LAMBDA r : r["year"] = year)]

\* sorted(...): the members of a set of integers in ascending order
RECURSIVE Sorted(_)
Sorted(S) ==
    IF S = {} THEN <<>>
    ELSE LET least == CHOOSE x \in S : \A y \in S : x <= y
         IN  <<least>> \o Sorted(S \ {least})

\* available_years(data_path): the years of the table other than 0, or the
\* ValueError of load_data
available_years(f) ==
    LET df == load_data(f)
    IN  IF df.raised THEN [raised |-> TRUE, years |-> <<>>]
        ELSE [raised |-> FALSE,
              years |-> Sorted({ df.rows[i]["year"] : i \in 1..Len(df.rows) }
                               \ {0})]

----------------------------------------------------------------------------
(* Melt helpers.                                                           *)

\* Available taking every column of the table but the year
Available_AllColumns(cols, df_year) ==
    SelectSeq(df_year.columns, LAMBDA c : c /= "year")

\* [c for c in cols if c in df_year.columns]
Available(cols, df_year) ==
    SelectSeq(cols, LAMBDA c : c \in Range(df_year.columns))

\* DataFrame.melt(id_vars="year", value_vars=available): one row per
\* value column and table row, the value columns in the order given
Melt(df_year, available) ==
    LET nR == Len(df_year.rows)
    IN  [k \in 1..(Len(available) * nR) |->
            LET c == available[((k - 1) \div nR) + 1]
                r == df_year.rows[((k - 1) % nR) + 1]
            IN  [year |-> r["year"], variable |-> c, value |-> r[c]]]

\* the melted rows under var_name="Educational_Attainment",
\* value_name="Education_Count"
EducRows(melted) ==
    [k \in 1..Len(melted) |->
        EducRow(melted[k].year, melted[k].variable, melted[k].value)]

\* the melted rows under var_name="Occupation", value_name="Occupation_Count"
OccRows(melted) ==
    [k \in 1..Len(melted) |->
        OccRow(melted[k].year, melted[k].variable, melted[k].value)]

melt_education(df_year) ==
    LET available == Available(EDUCATION_COLS, df_year)
    IN  IF available = <<>>
        THEN DF(<<>>)
        ELSE DF(EducRows(Melt(df_year, available)))

\* melt_occupation melting the other columns of the table when it holds
\* none of the occupation columns
melt_occupation_Fallback(df_year) ==
    LET available == Available(OCCUPATION_COLS, df_year)
    IN  IF available = <<>>
        THEN DF(OccRows(Melt(df_year, Available_AllColumns(<<>>, df_year))))
        ELSE DF(OccRows(Melt(df_year, available)))

melt_occupation(df_year) ==
    LET available == Available(OCCUPATION_COLS, df_year)
    IN  IF available = <<>>
        THEN DF(<<>>)
        ELSE DF(OccRows(Melt(df_year, available)))

----------------------------------------------------------------------------
(* get_heatmaps.                                                           *)

\* head(10) and tail(10)
TopK == 10

\* educ_df.groupby("Educational_Attainment")["Education_Count"].sum():
\* one row per category, holding the sum of the category's counts
EducTotals(educ_df) ==
    { [Educational_Attainment |-> c,
       Education_Count |->
           SeqSum(Column(SelectSeq(educ_df.rows,
                                   LAMBDA r : r.Educational_Attainment = c),
                         "Education_Count"))]
      : c \in Range(Column(educ_df.rows, "Educational_Attainment")) }

\* sort_values("Education_Count", ascending=False): the sort is the default
\* quicksort, which is not stable, so rows of equal count may come out in
\* any order; the set of all the orders the sort may produce
RECURSIVE SortDescending(_)
SortDescending(S) ==
    IF S = {} THEN { <<>> }
    ELSE LET tops == { x \in S :
                         \A y \in S : y.Education_Count <= x.Education_Count }
         IN  UNION { { <<x>> \o p : p \in SortDescending(S \ {x}) }
                     : x \in tops }

\* educ_totals.head(n)["Educational_Attainment"].tolist()
HeadCats(sorted, n) ==
    Column(SubSeq(sorted, 1, Min(n, Len(sorted))), "Educational_Attainment")

\* educ_totals.tail(n)["Educational_Attainment"].tolist()
TailCats(sorted, n) ==
    Column(SubSeq(sorted, Max(1, Len(sorted) - n + 1), Len(sorted)),
           "Educational_Attainment")

\* educ_df[educ_df["Educational_Attainment"].isin(cats)]
IsIn(educ_df, cats) ==
    DF(SelectSeq(educ_df.rows,
                 LAMBDA r : r.Educational_Attainment \in Range(cats)))

\* the value None where a figure is expected
NonePlot == [none |-> TRUE, x_range |-> <<>>, y_range |-> <<>>]

\* build_heatmap: None for a missing or empty joint table, else a figure
\* over the categories of x_order and y_order that occur in the table
build_heatmap(jdf, x_order, y_order) ==
    IF jdf.none \/ IsEmpty(jdf)
    THEN NonePlot
    ELSE [none |-> FALSE,
          x_range |-> SelectSeq(x_order, LAMBDA x :
                          x \in Range(Column(jdf.rows, "Occupation"))),
          y_range |-> SelectSeq(y_order, LAMBDA y :
                          y \in Range(Column(jdf.rows,
                                             "Educational_Attainment")))]

\* sorted(occ_df["Occupation"].unique().tolist()); OCCUPATION_COLS is
\* written in alphabetical order, so sorting keeps its order
OccAlphabetical(occ_df) ==
    SelectSeq(OCCUPATION_COLS,
              LAMBDA c : c \in Range(Column(occ_df.rows, "Occupation")))

\* one call of a transform inside get_heatmaps: the tables as they were
\* passed, and the same objects when get_heatmaps returns
Passed(callee, refs, before, after) ==
    [callee |-> callee,
     passed |-> [i \in 1..Len(refs) |-> before[refs[i]]],
     left |-> [i \in 1..Len(refs) |-> after[refs[i]]]]

\* what a call of get_heatmaps that returns (None, None, None, None) or
\* raises leaves behind; `stage` tells how far the call got
NoResult(year, stage, raised, educ_df, occ_df, inputs) ==
    [year |-> year, stage |-> stage, raised |-> raised,
     educ_df |-> educ_df, occ_df |-> occ_df,
     top10_educ |-> <<>>, bottom10_educ |-> <<>>,
     educ_top_df |-> DF(<<>>), educ_bottom_df |-> DF(<<>>),
     top_plot |-> NonePlot, bottom_plot |-> NonePlot,
     top_joint |-> NoneDF, bottom_joint |-> NoneDF,
     inputs |-> inputs]

\* the education table of the requested year, as get_heatmaps melts it
EducOfYear(year, f) == melt_education(YearFilter(load_data(f), year))

\* the orders in which the sort of get_heatmaps may rank the categories
RankOrders(year, f) ==
    IF ~f.hasYear THEN { <<>> }
    ELSE SortDescending(EducTotals(EducOfYear(year, f)))

\* the return of get_heatmaps: the four results and, for each call of a
\* transform, the tables passed and what the call and the rest of
\* get_heatmaps left of them. names binds the local names to their objects,
\* heaps holds the heap as each transform was called, top and bottom are the
\* two calls of estimate_joint
get_heatmaps_return(year, top10_educ, bottom10_educ, names, heaps, top, bottom) ==
    LET after == bottom.heap
        occ_alphabetical == OccAlphabetical(heaps.estimate_joint[names.occ_df])
    IN  [year |-> year, stage |-> "done", raised |-> FALSE,
         educ_df |-> after[names.educ_df], occ_df |-> after[names.occ_df],
         top10_educ |-> top10_educ, bottom10_educ |-> bottom10_educ,
         educ_top_df |-> after[names.educ_top_df],
         educ_bottom_df |-> after[names.educ_bottom_df],
         top_plot |-> build_heatmap(top.joint, occ_alphabetical, top10_educ),
         bottom_plot |->
             build_heatmap(bottom.joint, occ_alphabetical, bottom10_educ),
         top_joint |-> top.joint, bottom_joint |-> bottom.joint,
         inputs |->
             << Passed("load_data", <<names.df>>, heaps.load_data, after),
                Passed("melt_education", <<names.df_year>>,
                       heaps.melt_education, after),
                Passed("melt_occupation", <<names.df_year>>,
                       heaps.melt_occupation, after),
                Passed("isin", <<names.educ_df>>, heaps.isin, after),
                Passed("estimate_joint", <<names.educ_top_df, names.occ_df>>,
                       heaps.estimate_joint, after),
                Passed("estimate_joint",
                       <<names.educ_bottom_df, names.occ_df>>,
                       top.heap, after) >>]

\* get_heatmaps from bottom_joint = estimate_joint(educ_bottom_df, occ_df)
\* on: the second call works on the heap the first one, top, left
get_heatmaps_bottom(year, top10_educ, bottom10_educ, names, heaps, top) ==
    get_heatmaps_return(year, top10_educ, bottom10_educ, names, heaps, top,
        estimate_joint_call(top.heap, names.educ_bottom_df, names.occ_df))

\* get_heatmaps from df_year = df[df["year"] == year] on, df being the
\* object load_data returned: df_year is the selection of the year, educ_df
\* and occ_df the melts, educ_top_df and educ_bottom_df the isin
\* selections, every one a new object; occ_df is handed to both calls of
\* estimate_joint
get_heatmaps_year(year, educ_totals, df) ==
    LET df_year == frame_new(df.heap, YearFilter(df.heap[df.ref], year))
        source == <<df.ref>>
    IN
    IF Len(df_year.heap[df_year.ref].rows) = 0
    THEN NoResult(year, "no_year", FALSE, DF(<<>>), DF(<<>>),
                  << Passed("load_data", source, df.heap, df_year.heap) >>)
    ELSE
    LET educ_df == frame_new(df_year.heap,
                             melt_education(df_year.heap[df_year.ref]))
        occ_df == frame_new(educ_df.heap,
                            melt_occupation(educ_df.heap[df_year.ref]))
        melted == occ_df.heap
    IN
    IF IsEmpty(melted[educ_df.ref]) \/ IsEmpty(melted[occ_df.ref])
    THEN NoResult(year, "no_columns", FALSE,
                  melted[educ_df.ref], melted[occ_df.ref],
                  << Passed("load_data", source, df.heap, melted),
                     Passed("melt_education", <<df_year.ref>>,
                            df_year.heap, melted),
                     Passed("melt_occupation", <<df_year.ref>>,
                            educ_df.heap, melted) >>)
    ELSE
    LET top10_educ == HeadCats(educ_totals, TopK)
        bottom10_educ == TailCats(educ_totals, TopK)
        educ_top_df == frame_new(melted,
                                 IsIn(melted[educ_df.ref], top10_educ))
        educ_bottom_df ==
            frame_new(educ_top_df.heap,
                      IsIn(educ_top_df.heap[educ_df.ref], bottom10_educ))
        chosen == educ_bottom_df.heap
        names == [df |-> df.ref, df_year |-> df_year.ref,
                  educ_df |-> educ_df.ref, occ_df |-> occ_df.ref,
                  educ_top_df |-> educ_top_df.ref,
                  educ_bottom_df |-> educ_bottom_df.ref]
        heaps == [load_data |-> df.heap, melt_education |-> df_year.heap,
                  melt_occupation |-> educ_df.heap, isin |-> melted,
                  estimate_joint |-> chosen]
    IN  get_heatmaps_bottom(year, top10_educ, bottom10_educ, names, heaps,
            estimate_joint_call(chosen, educ_top_df.ref, occ_df.ref))

\* get_heatmaps(year), where educ_totals is the order the sort produced.
\* Every table is an object of the heap, df the one load_data returned
get_heatmaps(year, f, educ_totals) ==
    LET loaded == load_data(f)
    IN  IF loaded.raised
        THEN NoResult(year, "load_data", TRUE, DF(<<>>), DF(<<>>), <<>>)
        ELSE get_heatmaps_year(year, educ_totals, frame_new(<<>>, loaded))

\* the education categories in the order of their names, which is the
\* order of the groups of groupby (sort=True)
EDUCATION_SORTED ==
    << "college_graduate", "college_level",
       "elementary_graduate", "elementary_level",
       "high_school_graduate", "high_school_level",
       "no_formal_education", "non-formal_education",
       "not_of_schooling_age", "not_reported_/_no_response",
       "post_graduate", "post_graduate_level",
       "vocational_graduate", "vocational_level" >>

\* the row of the set S of totals whose category is c
TotalOf(S, c) == CHOOSE r \in S : r.Educational_Attainment = c

\* educ_df.groupby("Educational_Attainment", as_index=False)
\* ["Education_Count"].sum() as a table: the totals in the order of the
\* category names
GroupBySum(educ_df) ==
    LET S == EducTotals(educ_df)
        cats == SelectSeq(EDUCATION_SORTED,
                    LAMBDA c : \E r \in S : r.Educational_Attainment = c)
    IN  [i \in 1..Len(cats) |-> TotalOf(S, cats[i])]

\* the totals in the order in which the CSV holds their columns
grouped_totals_ColumnOrder(year, f) ==
    IF ~f.hasYear THEN <<>>
    ELSE LET S == EducTotals(EducOfYear(year, f))
             cats == SelectSeq(f.cols,
                         LAMBDA c : \E r \in S : r.Educational_Attainment = c)
         IN  [i \in 1..Len(cats) |-> TotalOf(S, cats[i])]

\* the table get_heatmaps hands to sort_values for a year of the CSV f
grouped_totals(year, f) ==
    IF ~f.hasYear THEN <<>> ELSE GroupBySum(EducOfYear(year, f))

\* two builds of the quicksort behind sort_values: one leaves rows of equal
\* count in the order it found them, the other reverses them
Builds == {"kept", "reversed"}

\* the sequence s without its i-th member
Without(s, i) == SubSeq(s, 1, i - 1) \o SubSeq(s, i + 1, Len(s))

\* sort_values("Education_Count", ascending=False) under a build: a
\* function of the table it is handed
RECURSIVE sort_values(_, _)
sort_values(totals, build) ==
    IF totals = <<>> THEN <<>>
    ELSE LET tops == { i \in 1..Len(totals) :
                         \A j \in 1..Len(totals) :
                             totals[j].Education_Count
                                 <= totals[i].Education_Count }
             i == IF build = "kept"
                  THEN CHOOSE k \in tops : \A l \in tops : k <= l
                  ELSE CHOOSE k \in tops : \A l \in tops : k >= l
         IN  <<totals[i]>> \o sort_values(Without(totals, i), build)

\* no call over a reordered CSV
NoReordered ==
    [cols |-> <<>>, totals |-> <<>>, reordered_totals |-> <<>>,
     hm |-> NoResult(0, "idle", FALSE, DF(<<>>), DF(<<>>), <<>>)]

\* get_heatmaps(year) over the CSV f and over the same CSV with its columns
\* in the order cols, both under one build of the sort
get_heatmaps_reordered(year, f, cols, build) ==
    LET g == [f EXCEPT !.cols = cols]
        totals == grouped_totals(year, f)
        reordered_totals == grouped_totals(year, g)
    IN  [hm |-> get_heatmaps(year, f, sort_values(totals, build)),
         reordered |->
             [cols |-> cols, totals |-> totals,
              reordered_totals |-> reordered_totals,
              hm |-> get_heatmaps(year, g,
                                  sort_values(reordered_totals, build))]]

----------------------------------------------------------------------------
(* The dashboard page: top destinations.                                   *)

\* the bounds of the "Top Destinations" slider
SliderMin == 5

SliderMax == 20

\* the value None where a row of a table is expected
NoneRow == [none |-> TRUE, cells |-> <<>>]

\* DataProcessor.get_year_data: the first row of the year, or None
get_year_data(pivot_df, year) ==
    LET result == SelectSeq(pivot_df.rows, LAMBDA r : r["year"] = year)
    IN  IF result = <<>> THEN NoneRow
        ELSE [none |-> FALSE, cells |-> result[1]]

\* DataProcessor.get_country_columns
get_country_columns(d) ==
    SelectSeq(d.countries.columns, LAMBDA col : col /= "year")

\* country_mapping.get(country, country.replace('_', ' ').title()) on the
\* country columns of the model's tables
CountryName(country) ==
    CASE country = "united_states_of_america" -> "USA"
      [] country = "canada" -> "Canada"
      [] country = "japan" -> "Japan"
      [] country = "hongkong" -> "Hong Kong"
      [] country = "china_(p.r.o.c.)" -> "China"
      [] country = "new_zealand" -> "New Zealand"
      [] country = "south_africa" -> "South Africa"

\* int(migrants * filter_ratio), filter_ratio = totals / original_total,
\* for original_total > 0: the ratio is a double and so is its product
\* with migrants, which int() truncates; when migrants * totals is a
\* multiple of original_total the product can lie just below the integer
ApplyRatio(migrants, total_migrants, original_total) ==
    LET exact == (migrants * total_migrants) \div original_total
    IN  IF /\ migrants > 0 /\ total_migrants > 0
           /\ (migrants * total_migrants) % original_total = 0
           /\ DoubleProductSide(migrants, total_migrants, original_total) < 0
        THEN exact - 1
        ELSE exact

\* the migrants shown for one country
Migrants(cells, country, cols, any_filter, total_migrants) ==
    LET migrants == cells[country]
        original_total == SeqSum([i \in 1..Len(cols) |-> cells[cols[i]]])
    IN  IF any_filter /\ original_total > 0
        THEN ApplyRatio(migrants, total_migrants, original_total)
        ELSE migrants

\* (migrants / totals['migrants'] * 100) if totals['migrants'] > 0 else 0:
\* the float64 quotient times 100, both operations rounded to float64
Percentage(migrants, total_migrants) ==
    IF total_migrants > 0
    THEN Float64Mul(Float64Div(migrants, total_migrants), Float64(100))
    ELSE Float64(0)

\* country_data: one row for every country column with migrants > 0
CountryData(cells, cols, any_filter, total_migrants) ==
    LET all == [i \in 1..Len(cols) |->
                   LET m == Migrants(cells, cols[i], cols, any_filter,
                                     total_migrants)
                   IN  [Country |-> CountryName(cols[i]), Migrants |-> m,
                        Percentage |-> Percentage(m, total_migrants)]]
    IN  SelectSeq(all, LAMBDA r : r.Migrants > 0)

\* DataFrame.nlargest(n, 'Migrants'), keep='first': the positions of the n
\* rows of the largest Migrants, the earlier row winning among equals
NLargest(rows, n) ==
    { i \in 1..Len(rows) :
        Cardinality({ j \in 1..Len(rows) :
                        \/ rows[j].Migrants > rows[i].Migrants
                        \/ rows[j].Migrants = rows[i].Migrants /\ j < i }) < n }

\* sort_values('Migrants', ascending=True): the rows in ascending order;
\* the sort is not stable, so rows of equal Migrants form one group whose
\* inner order the code does not determine
RECURSIVE SortAscendingGroups(_)
SortAscendingGroups(S) ==
    IF S = {} THEN <<>>
    ELSE LET lows == { x \in S : \A y \in S : x.Migrants <= y.Migrants }
         IN  <<lows>> \o SortAscendingGroups(S \ lows)

\* what the top-destinations block leaves behind when it draws no chart
NoChart(stage, raised, country_data) ==
    [stage |-> stage, raised |-> raised, country_data |-> country_data,
     top_n |-> 0, top_df |-> <<>>]

\* the top-destinations block of render_trends_and_destinations
TopDestinations(d, selected_year, any_filter, total_migrants, top_n) ==
    LET year_countries == get_year_data(d.countries, selected_year)
    IN
    IF year_countries.none THEN NoChart("no_year", FALSE, <<>>)
    ELSE
    LET country_data == CountryData(year_countries.cells,
                                    get_country_columns(d), any_filter,
                                    total_migrants)
    IN
    \* pd.DataFrame([]) has no 'Migrants' column: nlargest raises KeyError
    IF country_data = <<>> THEN NoChart("nlargest", TRUE, country_data)
    ELSE [stage |-> "done", raised |-> FALSE,
          country_data |-> country_data, top_n |-> top_n,
          top_df |-> SortAscendingGroups(
                        { country_data[i] :
                            i \in NLargest(country_data, top_n) })]

\* totals['migrants'] of calculate_filtered_data when no filter is set:
\* the sum of the country columns of the year, 0 when the year has no row
UnfilteredTotal(d, selected_year) ==
    LET year_countries == get_year_data(d.countries, selected_year)
        cols == get_country_columns(d)
    IN  IF year_countries.none THEN 0
        ELSE SeqSum([i \in 1..Len(cols) |-> year_countries.cells[cols[i]]])

----------------------------------------------------------------------------
(* Python strings.                                                         *)

LowerLetters ==
    << "a", "b", "c", "d", "e", "f", "g", "h", "i", "j", "k", "l", "m",
       "n", "o", "p", "q", "r", "s", "t", "u", "v", "w", "x", "y", "z" >>

UpperLetters ==
    << "A", "B", "C", "D", "E", "F", "G", "H", "I", "J", "K", "L", "M",
       "N", "O", "P", "Q", "R", "S", "T", "U", "V", "W", "X", "Y", "Z" >>

Digits == {"0", "1", "2", "3", "4", "5", "6", "7", "8", "9"}

IsLower(c) == c \in Range(LowerLetters)

IsUpper(c) == c \in Range(UpperLetters)

\* str.lower on one character
ToLower(c) ==
    IF IsUpper(c)
    THEN LowerLetters[CHOOSE i \in 1..Len(UpperLetters) : UpperLetters[i] = c]
    ELSE c

\* str.upper on one character
ToUpper(c) ==
    IF IsLower(c)
    THEN UpperLetters[CHOOSE i \in 1..Len(LowerLetters) : LowerLetters[i] = c]
    ELSE c

\* str.lower
Lower(s) == [i \in 1..Len(s) |-> ToLower(s[i])]

\* str.title: a letter that follows a letter is lowercased, every other
\* letter is uppercased
Title(s) ==
    [i \in 1..Len(s) |->
        IF i > 1 /\ (IsLower(s[i - 1]) \/ IsUpper(s[i - 1]))
        THEN ToLower(s[i]) ELSE ToUpper(s[i])]

\* str.replace(old, new) for single characters
ReplaceChar(s, old, new) ==
    [i \in 1..Len(s) |-> IF s[i] = old THEN new ELSE s[i]]

\* s without its leading and trailing characters of the set chars
RECURSIVE StripChars(_, _)
StripChars(s, chars) ==
    IF s = <<>> THEN s
    ELSE IF Head(s) \in chars THEN StripChars(Tail(s), chars)
    ELSE IF s[Len(s)] \in chars THEN StripChars(SubSeq(s, 1, Len(s) - 1), chars)
    ELSE s

\* str.strip(): whitespace off both ends
Strip(s) == StripChars(s, {" "})

\* StripUnderscore leaving the string as it is
StripUnderscore_Keep(s) == s

\* str.strip("_")
StripUnderscore(s) == StripChars(s, {"_"})

\* the class [a-z0-9]
IsKeyChar(c) == IsLower(c) \/ c \in Digits

\* str.replace(r"[^a-z0-9]+", "_", regex=True): every maximal run of
\* characters outside a-z0-9 becomes one underscore
RECURSIVE RegexReplace(_)
RegexReplace(s) ==
    IF s = <<>> THEN s
    ELSE IF IsKeyChar(Head(s)) THEN <<Head(s)>> \o RegexReplace(Tail(s))
    ELSE IF Len(s) > 1 /\ ~IsKeyChar(s[2]) THEN RegexReplace(Tail(s))
    ELSE <<"_">> \o RegexReplace(Tail(s))

\* a cell of a text column of a CSV: a string, or NaN for a missing value
Text(s) == [nan |-> FALSE, s |-> s]

NaNText == [nan |-> TRUE, s |-> <<>>]

\* astype(str): NaN becomes the string "nan"
AsTypeStr(cell) == IF cell.nan THEN <<"n", "a", "n">> ELSE cell.s

\* dict.get(key), the dictionary being a set of <<key, value>> pairs
HasKey(mapping, key) == \E kv \in mapping : kv[1] = key

Lookup(mapping, key) == (CHOOSE kv \in mapping : kv[1] = key)[2]

----------------------------------------------------------------------------
(* Name normalization.                                                     *)

\* the string literals of the mappings, as sequences of characters
Str_japan ==
    <<"j", "a", "p", "a", "n">>

Str_Japan ==
    <<"J", "a", "p", "a", "n">>

Str_hongkong ==
    <<"h", "o", "n", "g", "k", "o", "n", "g">>

Str_Hong_Kong ==
    <<"H", "o", "n", "g", " ", "K", "o", "n", "g">>

Str_canada ==
    <<"c", "a", "n", "a", "d", "a">>

Str_Canada ==
    <<"C", "a", "n", "a", "d", "a">>

Str_ncr ==
    <<"n", "c", "r">>

Str_NCR ==
    <<"N", "C", "R">>

Str_region_i ==
    <<"r", "e", "g", "i", "o", "n", "_", "i">>

Str_Region_I ==
    <<"R", "e", "g", "i", "o", "n", " ", "I">>

Str_oman ==
    <<"o", "m", "a", "n">>

Str_Oman ==
    <<"O", "m", "a", "n">>

Str_china_p_r_o_c ==
    <<"c", "h", "i", "n", "a", "_", "p", "_", "r", "_", "o", "_", "c">>

Str_China_PROC ==
    <<"C", "h", "i", "n", "a", " ", "(", "P", ".", "R", ".", "O", ".", "C",
      ".", ")">>

Str_PHILIPPINES ==
    <<"P", "H", "I", "L", "I", "P", "P", "I", "N", "E", "S">>

Str_REPUBLIC_OF_THE_PHILIPPINES ==
    <<"R", "E", "P", "U", "B", "L", "I", "C", " ", "O", "F", " ", "T", "H",
      "E", " ", "P", "H", "I", "L", "I", "P", "P", "I", "N", "E", "S">>

Str_Philippines ==
    <<"P", "h", "i", "l", "i", "p", "p", "i", "n", "e", "s">>

\* DataProcessor.country_mapping of the dashboard page (an excerpt)
country_mapping ==
    { <<Str_japan, Str_Japan>>,
      <<Str_hongkong, Str_Hong_Kong>>,
      <<Str_canada, Str_Canada>> }

\* DataProcessor.region_mapping of the dashboard page (an excerpt)
region_mapping ==
    { <<Str_ncr, Str_NCR>>,
      <<Str_region_i, Str_Region_I>> }

\* DataProcessor.country_mapping of the migration page (an excerpt)
migration_country_mapping ==
    { <<Str_oman, Str_Oman>>,
      <<Str_hongkong, Str_Hong_Kong>>,
      <<Str_china_p_r_o_c, Str_China_PROC>> }

\* no display name
NoName == [site |-> "idle", key |-> <<>>, shown |-> FALSE, display |-> <<>>]

\* the name of a country in the top-destinations list:
\* country_mapping.get(country, country.replace('_', ' ').title())
TopDestinationName(country) ==
    [site |-> "top_destinations", key |-> country, shown |-> TRUE,
     display |-> IF HasKey(country_mapping, country)
                 THEN Lookup(country_mapping, country)
                 ELSE Title(ReplaceChar(country, "_", " "))]

\* the name of a country on the world map: a country outside the mapping
\* gets no entry in map_data
WorldMapName(country) ==
    IF HasKey(country_mapping, country)
    THEN [site |-> "world_map", key |-> country, shown |-> TRUE,
          display |-> Lookup(country_mapping, country)]
    ELSE [site |-> "world_map", key |-> country, shown |-> FALSE,
          display |-> <<>>]

\* the name of a region in the origin-regions chart:
\* region_mapping.get(region, region)
OriginRegionName(region) ==
    [site |-> "origin_regions", key |-> region, shown |-> TRUE,
     display |-> IF HasKey(region_mapping, region)
                 THEN Lookup(region_mapping, region)
                 ELSE region]

\* df["destination_country"].replace({"PHILIPPINES": "Philippines",
\* "REPUBLIC OF THE PHILIPPINES": "Philippines"})
ReplacePhilippines(s) ==
    IF s \in {Str_PHILIPPINES, Str_REPUBLIC_OF_THE_PHILIPPINES}
    THEN Str_Philippines
    ELSE s

\* destination_country, as prepare_main_df rewrites it
DestinationCountry(cell) == ReplacePhilippines(Strip(AsTypeStr(cell)))

\* destination_clean of a destination_country
DestinationClean(destination_country) ==
    StripUnderscore(RegexReplace(Lower(destination_country)))

\* destination_pretty: destination_clean.map(country_mapping), a key
\* outside the mapping filled with destination_country
DestinationPretty(destination_clean, destination_country) ==
    IF HasKey(migration_country_mapping, destination_clean)
    THEN Lookup(migration_country_mapping, destination_clean)
    ELSE destination_country

\* df["origin_region"].astype(str).str.strip()
OriginRegionColumn(df) ==
    [i \in 1..Len(df.rows) |-> Strip(AsTypeStr(df.rows[i].origin_region))]

\* df["destination_country"].astype(str).str.strip()
DestinationCountryColumn(df) ==
    [i \in 1..Len(df.rows) |->
        Strip(AsTypeStr(df.rows[i].destination_country))]

\* df["destination_country"].replace({...}), read from the column as the
\* statement before wrote it
ReplacedCountryColumn(df) ==
    [i \in 1..Len(df.rows) |->
        ReplacePhilippines(df.rows[i].destination_country)]

\* the column destination_clean, read from the destination_country
\* written before it
DestinationCleanColumn(df) ==
    [i \in 1..Len(df.rows) |-> DestinationClean(df.rows[i].destination_country)]

\* the column destination_pretty, read from the two columns written
\* before it
DestinationPrettyColumn(df) ==
    [i \in 1..Len(df.rows) |->
        DestinationPretty(df.rows[i].destination_clean,
                          df.rows[i].destination_country)]

\* no result of prepare_main_df
NoPrep == [called |-> FALSE, raised |-> FALSE, df |-> <<>>]

\* a call of prepare_main_df on the object self.data["main"]: the heap it
\* leaves and the object it returns; the columns are written, one
\* statement after the other, into df
prepare_main_df_call(heap, data_main) ==
    LET df == copy(heap, data_main)
        origin == setitem(df.heap, df.ref, "origin_region",
                          OriginRegionColumn(df.heap[df.ref]))
        country == setitem(origin, df.ref, "destination_country",
                           DestinationCountryColumn(origin[df.ref]))
        replaced == setitem(country, df.ref, "destination_country",
                            ReplacedCountryColumn(country[df.ref]))
        clean == setitem(replaced, df.ref, "destination_clean",
                         DestinationCleanColumn(replaced[df.ref]))
        pretty == setitem(clean, df.ref, "destination_pretty",
                          DestinationPrettyColumn(clean[df.ref]))
    IN  [heap |-> pretty, ref |-> df.ref]

\* DataProcessor.prepare_main_df: the table it returns, and
\* self.data["main"] after the call
prepare_main_df(data_main) ==
    LET call == prepare_main_df_call(<<DF(data_main)>>, 1)
    IN  [main |-> call.heap[1].rows,
         result |-> [called |-> TRUE, raised |-> FALSE,
                     df |-> call.heap[call.ref].rows]]

----------------------------------------------------------------------------
(* The page loaders.                                                       *)

\* what a process holds before it has read anything: the number of
\* read_csv calls of the heatmap module, the last result of
\* available_years, the entry st.cache_data holds for the page's loader
\* ("empty", "value" for the parsed tables, "none" for a cached None), the
\* number of times the page's files were parsed, and the runs of the page
NoProc ==
    [reads |-> 0, years |-> [raised |-> FALSE, years |-> <<>>],
     cache |-> "empty", parses |-> 0, runs |-> 0]

\* a process whose page loader has parsed its files
LoadedProc == [NoProc EXCEPT !.cache = "value", !.parses = 1, !.runs = 1]

\* a page that has not been loaded
NoLoad ==
    [error |-> FALSE, stopped |-> FALSE, unpacked |-> FALSE, used |-> FALSE,
     uncaught |-> FALSE, attempts |-> 0]

\* a cached loader that answers from st.cache_data
FromCache(cache) ==
    [cache |-> cache, attempts |-> 0, parsed |-> 0,
     error |-> (cache = "none"), stopped |-> FALSE, returned |-> cache]

\* load_all_data reading the files again on every call
load_all_data_Uncached(status, cache) ==
    IF status = "ok"
    THEN [cache |-> "value", attempts |-> 1, parsed |-> 1,
          error |-> FALSE, stopped |-> FALSE, returned |-> "value"]
    ELSE [cache |-> cache, attempts |-> 1, parsed |-> 0,
          error |-> TRUE, stopped |-> TRUE, returned |-> "nothing"]

\* DataLoader.load_all_data under @st.cache_data: the parsed tables are
\* cached; a failing read_csv is reported with st.error and st.stop()
\* ends the run, leaving nothing in the cache
load_all_data(status, cache) ==
    IF cache = "value" THEN FromCache(cache)
    ELSE load_all_data_Uncached(status, cache)

\* load_health_data under @st.cache_data: a failing read_csv is reported
\* with st.error and None is returned, which st.cache_data caches
load_health_data(status, cache) ==
    IF cache /= "empty" THEN FromCache(cache)
    ELSE IF status = "ok"
    THEN [cache |-> "value", attempts |-> 1, parsed |-> 1,
          error |-> FALSE, stopped |-> FALSE, returned |-> "value"]
    ELSE [cache |-> "none", attempts |-> 1, parsed |-> 0,
          error |-> TRUE, stopped |-> FALSE, returned |-> "none"]

\* the run of a page whose loader stops on an error (1_Dashboard.py,
\* 2_MigrationData.py): the steps after the loader use the tables
StoppingPage(r) ==
    [error |-> r.error, stopped |-> r.stopped, unpacked |-> FALSE,
     used |-> ~r.stopped, uncaught |-> FALSE, attempts |-> r.attempts]

\* the run of pages/5_SupplementaryDataset.py: df = load_health_data(),
\* and every step that uses df is under `if df is not None:`
GuardedPage(r) ==
    [error |-> r.error, stopped |-> FALSE, unpacked |-> FALSE,
     used |-> (r.returned = "value"), uncaught |-> FALSE,
     attempts |-> r.attempts]

\* the run of data/Matthew/5_SupplementaryDataset.py:
\* df, migrant = load_health_data() unpacks the result before any test,
\* and unpacking None raises TypeError
UnpackingPage(r) ==
    [error |-> r.error, stopped |-> FALSE, unpacked |-> TRUE,
     used |-> (r.returned = "value"), uncaught |-> (r.returned = "none"),
     attempts |-> r.attempts]

\* the process after a run of the page with the loader's result r
AfterRun(p, r) ==
    [p EXCEPT !.cache = r.cache, !.parses = p.parses + r.parsed,
              !.runs = p.runs + 1]

----------------------------------------------------------------------------
(* The inputs of the model.                                                *)

\* the years of the tables, and the years a caller asks for (0 is the year
\* load_data gives a row whose year cell is missing or not a number)
Years == {2019, 2020}

RequestYears == {0, 2020}

\* the category-count tables of the year y over the categories of names,
\* every category at most once, in any row order, counts in 0..MaxCount
CountTables(names, y) ==
    UNION { UNION { { [i \in 1..Len(p) |->
                         [year |-> y, variable |-> p[i], value |-> cnt[p[i]]]]
                      : cnt \in [S -> 0..MaxCount] }
                    : p \in Perms(S) }
            : S \in SUBSET names }

EducNames == { EDUCATION_COLS[i] : i \in 1..3 }

OccNames == { OCCUPATION_COLS[i] : i \in 1..2 }

\* the education tables handed to estimate_joint: None or a table of 2020
EducInputs ==
    {NoneDF} \cup { DF(EducRows(t)) : t \in CountTables(EducNames, 2020) }

\* the occupation tables handed to estimate_joint: None or a table of a year
OccInputs ==
    {NoneDF} \cup
    UNION { { DF(OccRows(t)) : t \in CountTables(OccNames, y) } : y \in Years }

\* the inputs of the worked examples of the joint estimate
ExampleEduc ==
    { DF(<<EducRow(2020, "x", 30), EducRow(2020, "y", 70)>>),
      DF(<<EducRow(2020, "college", 600), EducRow(2020, "elementary", 400)>>) }

ExampleOcc ==
    { DF(<<OccRow(2020, "p", 50), OccRow(2020, "q", 50)>>),
      DF(<<OccRow(2020, "nurse", 300), OccRow(2020, "farmer", 700)>>) }

\* a joint cell given by its categories and its percentage alone
Cell(e, o, pct) ==
    [year |-> 2020, Educational_Attainment |-> e, Education_Count |-> 0,
     Occupation |-> o, Occupation_Count |-> 0, Percent |-> Float64(pct)]

\* most cells of a joint table handed to extract_insight directly
MaxCells == 3

\* the joint tables of at most most_cells cells handed to extract_insight
\* directly
JointInputs(most_cells) ==
    LET cells == { Cell(e, o, pct) :
                     e \in {"A", "D"}, o \in {"B", "C"}, pct \in {10, 25, 40} }
    IN  {NoneDF} \cup
        UNION { { DF(t) : t \in [1..n -> cells] } : n \in 0..most_cells }

\* a CSV table: whether it has a "year" column, its other columns in
\* order, and its rows (a function from the column names to the cells)
File(hasYear, cols, rows) == [hasYear |-> hasYear, cols |-> cols, rows |-> rows]

\* the cells of a count column of a narrow table
CellValues == {NaN} \cup 0..MaxCell

\* the cells of the year column
YearCells == Years \cup {NaN}

\* a column no column list names
OtherCol == "total_migrants"

\* a row: the year cell y, the cells v of the count columns
Row(y, cols, v) ==
    [c \in {"year", OtherCol} \cup Range(cols) |->
        IF c = "year" THEN y ELSE IF c = OtherCol THEN 1 ELSE v[c]]

\* the numbers of education and of occupation columns of a narrow table
NarrowSizes == {0, 1, 2}

\* narrow tables: the first nE education and nO occupation columns and one
\* other column; a first row of any cells and, in some, a second row whose
\* count cells all hold the same value
NarrowFiles ==
    UNION { LET cols == SubSeq(EDUCATION_COLS, 1, sz[1]) \o
                        SubSeq(OCCUPATION_COLS, 1, sz[2])
                first == { Row(y, cols, v) :
                             y \in YearCells, v \in [Range(cols) -> CellValues] }
                second == { Row(y, cols, [c \in Range(cols) |-> k]) :
                              y \in YearCells, k \in CellValues }
            IN  { File(TRUE, cols \o <<OtherCol>>, <<r>>) : r \in first } \cup
                { File(TRUE, cols \o <<OtherCol>>, <<r[1], r[2]>>)
                    : r \in first \X second }
            : sz \in NarrowSizes \X NarrowSizes }

\* wide tables: more education columns than get_heatmaps ranks into its
\* top 10, and two occupation columns; one row of 2020 whose education
\* counts rise or fall along the columns, one of them overwritten in some
WideFiles ==
    UNION { LET educ == SubSeq(EDUCATION_COLS, 1, n)
                occ == SubSeq(OCCUPATION_COLS, 1, 2)
                ramps == { [i \in 1..n |-> i], [i \in 1..n |-> n + 1 - i] }
                counts == ramps \cup
                          { [ramp EXCEPT ![j] = k] :
                              ramp \in ramps, j \in 1..n, k \in 0..MaxCell }
            IN  { File(TRUE, educ \o occ \o <<OtherCol>>,
                       << [c \in {"year", OtherCol} \cup Range(educ \o occ) |->
                             IF c = "year" THEN 2020
                             ELSE IF c = OtherCol THEN 1
                             ELSE IF c \in Range(occ) THEN o[c]
                             ELSE w[CHOOSE i \in 1..n : educ[i] = c]] >>)
                    : w \in counts, o \in [Range(occ) -> 0..MaxCell] }
            : n \in {TopK + 1, Len(EDUCATION_COLS)} }

\* a table without a "year" column
NoYearFiles ==
    LET cols == <<EDUCATION_COLS[1], OCCUPATION_COLS[1]>>
    IN  { File(FALSE, cols, << [c \in Range(cols) |-> k] >>) : k \in 0..MaxCell }

Files == NarrowFiles \cup WideFiles \cup NoYearFiles

\* no table at all
NoFile == File(FALSE, <<>>, <<>>)

\* the country columns of the model's countries table
COUNTRY_COLS ==
    << "united_states_of_america", "canada", "japan",
       "hongkong", "china_(p.r.o.c.)", "new_zealand" >>

\* the countries tables: one row of 2020, migrants in 0..MaxMigrants
CountryTables ==
    { [columns |-> <<"year">> \o COUNTRY_COLS,
       rows |-> << [c \in {"year"} \cup Range(COUNTRY_COLS) |->
                      IF c = "year" THEN 2020 ELSE v[c]] >>]
      : v \in [Range(COUNTRY_COLS) -> 0..MaxMigrants] }

NoData == [countries |-> [columns |-> <<>>, rows |-> <<>>]]

\* the characters of the free strings: a lowercase and an uppercase
\* letter, a digit, the underscore, a blank and a punctuation mark
Alphabet == {"a", "N", "1", "_", " ", "-"}

\* the strings over the alphabet, the empty string among them
Strings == UNION { [1..k -> Alphabet] : k \in 0..MaxStr }

Str_new_zealand ==
    <<"n", "e", "w", "_", "z", "e", "a", "l", "a", "n", "d">>

Str_region_xiv ==
    <<"r", "e", "g", "i", "o", "n", "_", "x", "i", "v">>

\* the column names the dashboard page turns into display names
Keys ==
    Strings \cup {Str_japan, Str_hongkong, Str_ncr, Str_region_i,
                  Str_new_zealand, Str_region_xiv}

\* destinations as a CSV may spell them
ExampleDestinations ==
    { Str_Oman, <<" ", "O", "M", "A", "N", " ">>,
      Str_PHILIPPINES, Str_Hong_Kong, Str_China_PROC,
      <<"S", "O", "U", "T", "H", " ", "S", "U", "D", "A", "N">> }

\* the cells of the destination_country column; read_csv reads an empty
\* cell as NaN, so no cell holds the empty string
DestinationCells ==
    {NaNText} \cup
    { Text(s) : s \in (Strings \ {<<>>}) \cup ExampleDestinations }

\* the years of the migration table
MainYears == {2018, 2019, 2020}

\* a row of the migration table
MainRow(y, origin, destination, m) ==
    [year |-> y, origin_region |-> origin, destination_country |-> destination,
     migrants |-> m]

\* the migration tables: one row of any destination, or two rows of
\* example destinations and of any years
MainTables ==
    { <<MainRow(y, o, d, 1)>> :
        y \in MainYears, o \in {Text(Str_NCR), NaNText}, d \in DestinationCells }
    \cup
    { <<MainRow(y[1], Text(Str_NCR), Text(d[1]), m[1]),
        MainRow(y[2], Text(Str_NCR), Text(d[2]), m[2])>> :
        y \in MainYears \X MainYears,
        d \in ExampleDestinations \X {Str_Oman, <<" ">>},
        m \in {0, 1} \X {1} }

\* the migration page has loaded nothing
NoMain == <<>>

\* the CSVs over which available_years and get_heatmaps are called in
\* turn: the tables without a year column and the narrow tables of two
\* count columns
LoadFiles ==
    NoYearFiles \cup { f \in NarrowFiles : Len(f.cols) = 3 }

\* no source file
NoDisk == [status |-> "none", countries |-> NoData.countries, main |-> NoMain]

\* what the files of a page may be on disk
Statuses == {"ok", "missing", "malformed"}

\* the files of the dashboard page: missing, malformed, or a countries
\* table whose cells all hold the same count
DashboardDisks ==
    { [status |-> st, countries |-> NoData.countries, main |-> NoMain]
        : st \in Statuses \ {"ok"} }
    \cup
    { [status |-> "ok", countries |-> t, main |-> NoMain]
        : t \in { u \in CountryTables :
                    \A c \in Range(COUNTRY_COLS) :
                        u.rows[1][c] = u.rows[1][COUNTRY_COLS[1]] } }

\* the file of the migration page: missing, malformed, or a table of two
\* rows
MigrationDisks ==
    { [status |-> st, countries |-> NoData.countries, main |-> NoMain]
        : st \in Statuses \ {"ok"} }
    \cup
    { [status |-> "ok", countries |-> NoData.countries, main |-> m]
        : m \in { t \in MainTables : Len(t) = 2 } }

\* the file of a supplementary page, whose table the model does not hold
HealthDisks ==
    { [status |-> st, countries |-> NoData.countries, main |-> NoMain]
        : st \in Statuses }

----------------------------------------------------------------------------
(* The filter state of the dashboard page: st.session_state, one per       *)
(* browser session, read and written by FilterManager during a script run. *)

\* the browser sessions served by the one process
Sessions == {1, 2}

\* the options of the three multiselects the model offers, and the lists a
\* multiselect can return over them
EducationOptions == {"College Graduate"}

AgeOptions == {"25 - 29"}

OccupationOptions == {"Clerical Workers"}

Selections(options) == {<<>>} \cup { <<o>> : o \in options }

\* the defaults of initialize_filters and reset_filters
DefaultColorscale == "Viridis"

DefaultTopN == 10

DefaultChartHeight == 350

\* the lowest value of the chart-height slider
ChartHeightMin == 300

\* the values of the three visualization widgets the model offers
Colorscales == {DefaultColorscale, "Plasma"}

TopNChoices == {SliderMin, DefaultTopN}

ChartHeights == {ChartHeightMin, DefaultChartHeight}

\* the six attributes with their default values
Defaults(initialized) ==
    [ filters_initialized |-> initialized,
      education_filter    |-> <<>>,
      age_filter          |-> <<>>,
      occupation_filter   |-> <<>>,
      map_colorscale      |-> DefaultColorscale,
      top_n_countries     |-> DefaultTopN,
      chart_height        |-> DefaultChartHeight ]

\* st.session_state.<attribute> = value, as a statement of the script
Statement(attribute, value) ==
    [object |-> "st.session_state", attribute |-> attribute, value |-> value]

\* the statements of initialize_filters under its test
InitializeStatements ==
    << Statement("education_filter", <<>>),
       Statement("age_filter", <<>>),
       Statement("occupation_filter", <<>>),
       Statement("map_colorscale", DefaultColorscale),
       Statement("top_n_countries", DefaultTopN),
       Statement("chart_height", DefaultChartHeight),
       Statement("filters_initialized", TRUE) >>

\* the statements of reset_filters before its st.rerun()
ResetStatements ==
    << Statement("education_filter", <<>>),
       Statement("age_filter", <<>>),
       Statement("occupation_filter", <<>>),
       Statement("map_colorscale", DefaultColorscale),
       Statement("top_n_countries", DefaultTopN),
       Statement("chart_height", DefaultChartHeight) >>

\* the statements under the Apply button, before its st.rerun(): w holds
\* what the three multiselects returned
ApplyStatements(w) ==
    << Statement("education_filter", w.education_filter),
       Statement("age_filter", w.age_filter),
       Statement("occupation_filter", w.occupation_filter) >>

\* the statements after the visualization widgets: w holds what the three
\* widgets returned
StoreStatements(w) ==
    << Statement("map_colorscale", w.map_colorscale),
       Statement("top_n_countries", w.top_n_countries),
       Statement("chart_height", w.chart_height) >>

\* the attributes of one st.session_state after a statement
Assign(state, statement) ==
    [state EXCEPT ![statement.attribute] = statement.value]

\* the attributes after the statements, executed in their order
RECURSIVE Execute(_, _)
Execute(state, statements) ==
    IF statements = <<>> THEN state
    ELSE Execute(Assign(state, Head(statements)), Tail(statements))

\* what the script thread of a session holds between the statements of a
\* run: the values the widgets returned
NoLocals ==
    [ education_filter  |-> <<>>,
      age_filter        |-> <<>>,
      occupation_filter |-> <<>>,
      map_colorscale    |-> DefaultColorscale,
      top_n_countries   |-> DefaultTopN,
      chart_height      |-> DefaultChartHeight ]

\* a session before its first script run: 'filters_initialized' is not in
\* st.session_state, and no attribute is read before initialize_filters.
\* Beside the attributes of st.session_state the record holds the script
\* thread of the session: whether st.rerun() ended its last run, the
\* statement it is at (`at` and the position k in the statements of at),
\* whether the interaction that started the run is still to be returned
\* by a widget, the values its widgets returned, and self.data, the copy
\* of the tables st.cache_data handed to Dashboard.__init__
NewSession ==
    [state |-> Defaults(FALSE), rerun |-> FALSE,
     at |-> "idle", k |-> 1, trigger |-> FALSE, w |-> NoLocals,
     data_dict |-> NoData]

\* initialize_filters setting the defaults on every run
initialize_filters_EveryRun(state) == Defaults(TRUE)

\* FilterManager.initialize_filters
initialize_filters(state) ==
    IF ~state.filters_initialized
    THEN Execute(state, InitializeStatements)
    ELSE state

\* FilterManager.get_filters
get_filters(state) ==
    [ education       |-> state.education_filter,
      age             |-> state.age_filter,
      occupation      |-> state.occupation_filter,
      map_colorscale  |-> state.map_colorscale,
      top_n_countries |-> state.top_n_countries,
      chart_height    |-> state.chart_height ]

\* FilterManager.reset_filters, up to its st.rerun()
reset_filters(state) == Execute(state, ResetStatements)

\* what the widgets of one run return: the three multiselects, the three
\* visualization widgets, and the button that was clicked, if any
Widgets(education, age, occupation, colorscale, top_n, height, button) ==
    [ education_filter  |-> education,
      age_filter        |-> age,
      occupation_filter |-> occupation,
      map_colorscale    |-> colorscale,
      top_n_countries   |-> top_n,
      chart_height      |-> height,
      button            |-> button ]

\* render_sidebar_controls storing the multiselects on every run
render_sidebar_controls_Live(state, w) ==
    LET initialized == initialize_filters(state)
        stored == Execute(Execute(initialized, ApplyStatements(w)),
                          StoreStatements(w))
    IN  IF w.button = "reset"
        THEN [state |-> reset_filters(stored), rerun |-> TRUE]
        ELSE [state |-> stored, rerun |-> (w.button /= "none")]

\* FilterManager.__init__ and render_sidebar_controls of one script run over
\* the session's state, with no statement of another script thread in
\* between: the state the run leaves, and whether it ended in st.rerun()
render_sidebar_controls(state, w) ==
    LET initialized == initialize_filters(state)
        applied == Execute(initialized, ApplyStatements(w))
        stored == Execute(initialized, StoreStatements(w))
    IN  IF w.button = "apply"
        THEN [state |-> applied, rerun |-> TRUE]
        ELSE IF w.button = "refresh"
        THEN [state |-> stored, rerun |-> TRUE]
        ELSE IF w.button = "reset"
        THEN [state |-> reset_filters(stored), rerun |-> TRUE]
        ELSE [state |-> stored, rerun |-> FALSE]

\* st.session_state naming one store for the whole process: every script
\* thread is handed the store of the first session
st_session_state_Shared(s) == 1

\* the store the name st.session_state denotes in the script thread of
\* the session s: Streamlit keeps one per browser session and hands the
\* thread the store of its own session
st_session_state(s) == s

\* the attributes a script thread of the session s reads under the name
\* st.session_state, in the memory mem of the process
SessionState(mem, s) == mem[st_session_state(s)].state

\* the memory after the script thread of the session s has executed a
\* statement: the attribute is written into the object the statement
\* names
ExecuteIn(mem, s, statement) ==
    IF statement.object = "st.session_state"
    THEN [mem EXCEPT ![st_session_state(s)].state = Assign(@, statement)]
    ELSE mem

\* the memory after a whole script run of the session s that left the
\* attributes and the st.rerun() of run
AfterRunOf(mem, s, run) ==
    LET written == [mem EXCEPT ![st_session_state(s)].state = run.state]
    IN  [written EXCEPT ![s].rerun = run.rerun]

\* the script thread of the session s moved to the statement k of at,
\* holding the widget values w
Goto(mem, s, at, k, trigger, w) ==
    [mem EXCEPT ![s].at = at, ![s].k = k, ![s].trigger = trigger, ![s].w = w]

\* the script thread of the session s at the end of its run, which
\* st.rerun() ended (rerun) or the end of the script
EndRun(mem, s, rerun) ==
    [Goto(mem, s, "idle", 1, FALSE, NoLocals)
        EXCEPT ![s].rerun = rerun, ![s].data_dict = NoData]

\* the widgets of a run in which the user changed nothing: the multiselects
\* show the stored filters and the visualization widgets the stored options
SameWidgets(state, button) ==
    LET cur == initialize_filters(state)
    IN  Widgets(cur.education_filter, cur.age_filter, cur.occupation_filter,
                cur.map_colorscale, cur.top_n_countries, cur.chart_height,
                button)

\* the six widgets of the sidebar whose value render_sidebar_controls reads
WidgetNames ==
    {"education_filter", "age_filter", "occupation_filter",
     "map_colorscale", "top_n_countries", "chart_height"}

\* the values the user can give a widget
WidgetOptions(name) ==
    CASE name = "education_filter" -> Selections(EducationOptions)
      [] name = "age_filter" -> Selections(AgeOptions)
      [] name = "occupation_filter" -> Selections(OccupationOptions)
      [] name = "map_colorscale" -> Colorscales
      [] name = "top_n_countries" -> TopNChoices
      [] name = "chart_height" -> ChartHeights

\* no run has drawn the widgets: there is nothing in the browser to change
\* or to click
NoWidgets ==
    LET w == SameWidgets(NewSession.state, "none")
    IN  [ education_filter  |-> w.education_filter,
          age_filter        |-> w.age_filter,
          occupation_filter |-> w.occupation_filter,
          map_colorscale    |-> w.map_colorscale,
          top_n_countries   |-> w.top_n_countries,
          chart_height      |-> w.chart_height,
          button            |-> "none",
          defaults          |-> [name \in WidgetNames |-> w[name]],
          drawn             |-> FALSE ]

\* what the widgets return in a run of a session whose attributes are in
\* state, after the run that left drawn in the browser, when the user has
\* given the widget changed the value to (changed is "none" when no widget
\* was changed) or has clicked button. None of the widgets has a key, and
\* each is drawn with the stored attribute as its default=, index= or
\* value=: a widget drawn with the default of the run before is the same
\* widget and returns what the browser holds, the user's change included;
\* a widget drawn with another default is a new widget and returns that
\* default, and a change the user made to the old one is lost. The record
\* keeps the defaults of this run beside the values.
sidebar_widgets(state, drawn, changed, to, button) ==
    LET cur == initialize_filters(state)
        same_widget(name) == drawn.drawn /\ drawn.defaults[name] = cur[name]
        value(name) ==
            IF same_widget(name)
            THEN (IF changed = name THEN to ELSE drawn[name])
            ELSE cur[name]
    IN  [ education_filter  |-> value("education_filter"),
          age_filter        |-> value("age_filter"),
          occupation_filter |-> value("occupation_filter"),
          map_colorscale    |-> value("map_colorscale"),
          top_n_countries   |-> value("top_n_countries"),
          chart_height      |-> value("chart_height"),
          button            |-> button,
          defaults          |-> [name \in WidgetNames |-> cur[name]],
          drawn             |-> TRUE ]

----------------------------------------------------------------------------
(* The blocks of the pages.                                                *)

\* render_metrics has not run
NoMetrics ==
    [called |-> FALSE, year |-> 0, raised |-> FALSE, top_destination |-> ""]

\* Series.idxmax over the country columns: the first column of the
\* greatest value
CountryIdxMax(cells, cols) ==
    cols[CHOOSE i \in 1..Len(cols) :
            /\ \A j \in 1..Len(cols) : cells[cols[j]] <= cells[cols[i]]
            /\ \A j \in 1..(i - 1) : cells[cols[j]] < cells[cols[i]]]

\* country_mapping.get(country, 'N/A') on the country columns of the
\* model's tables: 'new_zealand' and 'south_africa' are no keys of
\* country_mapping
MetricsTopDestination(country) ==
    IF country \in {"new_zealand", "south_africa"} THEN "N/A"
    ELSE CountryName(country)

\* Dashboard.render_metrics, its top destination: top_dest is assigned
\* only when the year has a row in the countries table, and the markdown
\* that follows reads it either way, which raises UnboundLocalError when
\* it was not assigned
render_metrics(d, selected_year) ==
    LET year_countries == get_year_data(d.countries, selected_year)
    IN  IF year_countries.none
        THEN [called |-> TRUE, year |-> selected_year, raised |-> TRUE,
              top_destination |-> ""]
        ELSE [called |-> TRUE, year |-> selected_year, raised |-> FALSE,
              top_destination |->
                  MetricsTopDestination(
                      CountryIdxMax(year_countries.cells,
                                    get_country_columns(d)))]

\* the options of the filters as the DataProcessor lists them, the first of
\* each list, and the columns that education_mapping and occupation_mapping
\* give them (the age options are column names themselves)
all_education_options == <<"College Graduate", "High School">>

all_age_options == <<"25 - 29">>

all_occupation_options == <<"Clerical Workers">>

education_mapping ==
    { <<"College Graduate", "college_graduate">>,
      <<"High School", "high_school_graduate">> }

occupation_mapping == { <<"Clerical Workers", "clerical_workers">> }

\* category_mapping.get(category, category)
ColumnOf(category_mapping, category) ==
    IF \E m \in category_mapping : m[1] = category
    THEN (CHOOSE m \in category_mapping : m[1] = category)[2]
    ELSE category

\* the loop of calculate_filtered_total over a list of categories
SumCategories(cells, categories, category_mapping) ==
    SeqSum([i \in 1..Len(categories) |->
               LET col_name == ColumnOf(category_mapping, categories[i])
               IN  IF col_name \in DOMAIN cells THEN cells[col_name] ELSE 0])

\* DataProcessor.calculate_filtered_total
calculate_filtered_total(cells, filter_categories, category_mapping, filter_list) ==
    IF filter_list = <<>>
    THEN SumCategories(cells, filter_categories, category_mapping)
    ELSE SumCategories(cells, filter_list, category_mapping)

\* min(filtered_totals)
MinOf(S) == CHOOSE x \in S : \A y \in S : x <= y

\* the three filters handed to calculate_filtered_data
Filters(education, age, occupation) ==
    [education |-> education, age |-> age, occupation |-> occupation]

\* Dashboard.calculate_filtered_data: the four totals
calculate_filtered_data(d, selected_year, filters) ==
    LET year_countries == get_year_data(d.countries, selected_year)
        year_educ == get_year_data(d.education, selected_year)
        year_age == get_year_data(d.age, selected_year)
        year_occu == get_year_data(d.occupation, selected_year)
        filtered_education_total ==
            IF year_educ.none THEN 0
            ELSE calculate_filtered_total(year_educ.cells,
                     all_education_options, education_mapping,
                     filters.education)
        filtered_age_total ==
            IF year_age.none THEN 0
            ELSE calculate_filtered_total(year_age.cells, all_age_options,
                                          {}, filters.age)
        filtered_occupation_total ==
            IF year_occu.none THEN 0
            ELSE calculate_filtered_total(year_occu.cells,
                     all_occupation_options, occupation_mapping,
                     filters.occupation)
        filtered_totals ==
            (IF filters.education /= <<>>
             THEN {filtered_education_total} ELSE {})
            \cup (IF filters.age /= <<>> THEN {filtered_age_total} ELSE {})
            \cup (IF filters.occupation /= <<>>
                  THEN {filtered_occupation_total} ELSE {})
        cols == get_country_columns(d)
        countries_total ==
            IF year_countries.none THEN 0
            ELSE SeqSum([i \in 1..Len(cols) |-> year_countries.cells[cols[i]]])
    IN  [called |-> TRUE, year |-> selected_year, filters |-> filters,
         totals |->
             [migrants |-> IF filtered_totals /= {} THEN MinOf(filtered_totals)
                           ELSE countries_total,
              education |-> filtered_education_total,
              age |-> filtered_age_total,
              occupation |-> filtered_occupation_total]]

\* calculate_filtered_data has not run
NoFiltered ==
    [called |-> FALSE, year |-> 0, filters |-> Filters(<<>>, <<>>, <<>>),
     totals |-> [migrants |-> 0, education |-> 0, age |-> 0,
                 occupation |-> 0]]

\* the sidebar of the migration page has not run
NoCumTotal == [called |-> FALSE, year |-> 0, cum_total_migrants |-> 0]

\* the occupation columns of occu_df as load_data renames them
occu_columns ==
    <<"Clerical Workers", "Housewives", "Retirees", "Students">>

\* the bounds and the default of the slider "Number of occupations to
\* display"
top_n_min == 3

top_n_max == 15

default_top_n == 12

\* the values of top_n of the runs: the least, the default and the greatest
TopNs == {top_n_min, default_top_n, top_n_max}

\* the answers of the multiselect "Filter occupations" of the runs: none,
\* one occupation, or all of them
Multiselects ==
    {<<>>, occu_columns} \cup { <<occu_columns[i]>> : i \in 1..Len(occu_columns) }

\* no gender/occupation page has run
NoGender ==
    [called |-> FALSE, raised |-> "", build |-> "kept", selected_year |-> 0,
     top_n |-> 0, occupation_multiselect |-> <<>>, display_df |-> <<>>,
     fallback |-> FALSE, sex_year |-> 0, male_total |-> 0,
     female_total |-> 0, male_share |-> Rat(0, 1), female_share |-> Rat(0, 1),
     est |-> <<>>, top_show_df |-> <<>>]

\* sort_values("Count", ascending=...) under a build: the rows in the order
\* of their counts, rows of one count in the order of the table or in the
\* reverse of it
RECURSIVE sort_by_count(_, _, _)
sort_by_count(rows, ascending, build) ==
    IF rows = <<>> THEN <<>>
    ELSE LET firsts == { i \in 1..Len(rows) :
                           \A j \in 1..Len(rows) :
                               IF ascending
                               THEN rows[i].Count <= rows[j].Count
                               ELSE rows[j].Count <= rows[i].Count }
             i == IF build = "kept"
                  THEN CHOOSE k \in firsts : \A l \in firsts : k <= l
                  ELSE CHOOSE k \in firsts : \A l \in firsts : k >= l
         IN  <<rows[i]>> \o sort_by_count(Without(rows, i), ascending, build)

\* head(n) of a table
head(rows, n) == SubSeq(rows, 1, Min(n, Len(rows)))

\* occ_year: the row of the selected year turned into one row per
\* occupation column, sorted by Count, greatest first
occ_year(row, build) ==
    sort_by_count([i \in 1..Len(occu_columns) |->
                      [Occupation |-> occu_columns[i],
                       Count |-> row[occu_columns[i]]]],
                  FALSE, build)

\* display_df: the occupations of the multiselect, or the first top_n of
\* occ_year when the multiselect is empty
display_df(occ, occupation_multiselect, top_n) ==
    IF occupation_multiselect # <<>>
    THEN SelectSeq(occ, LAMBDA r : r.Occupation \in Range(occupation_multiselect))
    ELSE head(occ, top_n)

\* sex_row: the rows of sex_df of the selected year, or, when there is
\* none, sex_df.iloc[[-1]], the last row of the table
sex_row(sex_df, selected_year) ==
    LET of_year == SelectSeq(sex_df, LAMBDA r : r.year = selected_year)
    IN  IF of_year # <<>> THEN of_year ELSE <<sex_df[Len(sex_df)]>>

\* the shares without the guard on total_people
gender_shares_Unguarded(male_total, female_total) ==
    LET total_people == male_total + female_total
    IN  IF total_people = 0
        THEN [raised |-> "ZeroDivisionError", male_share |-> Rat(0, 1),
              female_share |-> Rat(0, 1)]
        ELSE [raised |-> "", male_share |-> Rat(male_total, total_people),
              female_share |-> Rat(female_total, total_people)]

\* male_share and female_share: the totals over total_people, 0.5 each
\* when total_people is 0
gender_shares(male_total, female_total) ==
    LET total_people == male_total + female_total
    IN  [raised |-> "",
         male_share |-> IF total_people # 0
                        THEN Rat(male_total, total_people) ELSE Rat(1, 2),
         female_share |-> IF total_people # 0
                          THEN Rat(female_total, total_people)
                          ELSE Rat(1, 2)]

\* Series.round() of a non-negative value: the nearest integer, the even
\* one of the two when the value lies halfway between them
round_half_even(p) ==
    LET q == p.n \div p.d
        r == p.n % p.d
    IN  IF 2 * r < p.d THEN q
        ELSE IF 2 * r > p.d THEN q + 1
        ELSE IF q % 2 = 0 THEN q ELSE q + 1

\* (Count * share).round() of one row: the share is the double of the
\* quotient of the totals and the product is a double; when Count times
\* the quotient is a half, the product can lie on either side of it and
\* is rounded to that side
rounded_estimate(Count, share) ==
    LET product == Rat(Count * share.n, share.d)
        side == DoubleProductSide(Count, share.n, share.d)
    IN  IF product.d = 2 /\ side < 0 THEN product.n \div 2
        ELSE IF product.d = 2 /\ side > 0 THEN product.n \div 2 + 1
        ELSE round_half_even(product)

\* est: display_df with the columns Male and Female,
\* (Count * share).round().astype(int)
est(display, shares) ==
    [i \in 1..Len(display) |->
        [Occupation |-> display[i].Occupation, Count |-> display[i].Count,
         Male |-> rounded_estimate(display[i].Count, shares.male_share),
         Female |-> rounded_estimate(display[i].Count, shares.female_share)]]

\* top_show_df of the chart 'Top Occupations (Selected Year)':
\* pages/3 sorts est by Count with ascending=False, pages/4 with
\* ascending=True, and both take head(top_n)
top_show_df(script, e, top_n, build) ==
    head(sort_by_count([i \in 1..Len(e) |->
                           [Occupation |-> e[i].Occupation,
                            Count |-> e[i].Count]],
                       script = "4_GenderOccupation", build),
         top_n)

\* a run of pages/3_EducationOccupation.py or pages/4_GenderOccupation.py
\* over the tables of load_data, from the sidebar down to top_show_df
gender_page(script, tables, selected_year, top_n, occupation_multiselect, build) ==
    LET row == SelectSeq(tables.occu_df, LAMBDA r : r.year = selected_year)
        display == display_df(occ_year(row[1], build),
                              occupation_multiselect, top_n)
        of_year == SelectSeq(tables.sex_df, LAMBDA r : r.year = selected_year)
        base == [NoGender EXCEPT !.called = TRUE, !.build = build,
                                 !.selected_year = selected_year,
                                 !.top_n = top_n,
                                 !.occupation_multiselect =
                                     occupation_multiselect,
                                 !.display_df = display,
                                 !.fallback = (of_year = <<>>)]
    IN  IF of_year = <<>> /\ tables.sex_df = <<>>
        THEN [base EXCEPT !.raised = "IndexError"]
        ELSE LET sex == sex_row(tables.sex_df, selected_year)
                 male_total == sex[1].Male
                 female_total == sex[1].Female
                 shares == gender_shares(male_total, female_total)
                 e == est(display, shares)
             IN  IF shares.raised # ""
                 THEN [base EXCEPT !.raised = shares.raised,
                                   !.sex_year = sex[1].year,
                                   !.male_total = male_total,
                                   !.female_total = female_total]
                 ELSE [base EXCEPT !.sex_year = sex[1].year,
                                   !.male_total = male_total,
                                   !.female_total = female_total,
                                   !.male_share = shares.male_share,
                                   !.female_share = shares.female_share,
                                   !.est = e,
                                   !.top_show_df =
                                       top_show_df(script, e, top_n, build)]

----------------------------------------------------------------------------
(* The year controls of the pages.                                         *)

\* no year control has run
NoSelection == [none |-> TRUE, raised |-> FALSE, year |-> 0, years |-> <<>>]

\* the values of a year column, sorted: sorted(df["year"].unique())
UniqueYears(year_column) == Sorted(Range(year_column))

\* the outcomes of the slider of the migration page over the year column
\* of the prepared table. min_value = min(years) and max_value =
\* max(years): when the table has one year only the two are equal and
\* st.sidebar.slider raises StreamlitAPIException (min_value must be less
\* than max_value), so that no year is selected; otherwise the slider
\* returns any integer from the least to the greatest year, in steps of
\* one
year_slider(year_column) ==
    LET years == UniqueYears(year_column)
    IN  IF years[1] = years[Len(years)]
        THEN { [none |-> TRUE, raised |-> TRUE, year |-> 0, years |-> years] }
        ELSE { [none |-> FALSE, raised |-> FALSE, year |-> y, years |-> years]
                 : y \in years[1]..years[Len(years)] }

\* the years the selectbox of the dashboard page can return over the year
\* column of data['education']: the options are its years
year_selectbox(year_column) ==
    LET years == UniqueYears(year_column)
    IN  { [none |-> FALSE, raised |-> FALSE, year |-> years[i],
           years |-> years]
            : i \in 1..Len(years) }

\* df.groupby("year")["migrants"].sum().sort_values("year") with the column
\* cumulative_migrants = cumsum(): one row per year of the table
df_year_totals(df) ==
    LET years == UniqueYears([i \in 1..Len(df) |-> df[i].year])
        total(y) == SeqSum(Column(SelectSeq(df, LAMBDA r : r.year = y),
                                  "migrants"))
    IN  [k \in 1..Len(years) |->
            [year |-> years[k], migrants |-> total(years[k]),
             cumulative_migrants |->
                 SeqSum([j \in 1..k |-> total(years[j])])]]

\* cum_total_migrants of the sidebar: the cumulative total of the row of
\* the selected year, 0 when df_year_totals has no such row
cum_total_migrants(df, selected_year) ==
    LET cum_total_row == SelectSeq(df_year_totals(df),
                                   LAMBDA r : r.year = selected_year)
    IN  [called |-> TRUE, year |-> selected_year,
         cum_total_migrants |->
             IF cum_total_row = <<>> THEN 0
             ELSE cum_total_row[1].cumulative_migrants]

\* the year columns of the education table of the dashboard page
EducationYearColumns == UNION { [1..k -> Years] : k \in 1..2 }

\* the columns of a CSV in another order: as they are, reversed, or with
\* the first column moved to the end
ColumnOrders(cols) ==
    { cols,
      [i \in 1..Len(cols) |-> cols[Len(cols) + 1 - i]],
      [i \in 1..Len(cols) |-> cols[(i % Len(cols)) + 1]] }

\* tables of one row of 2020 whose education counts are 0 but for one
\* column: narrow ones of three education columns, and wide ones of more
\* education columns than get_heatmaps ranks into its top 10
SparseFiles ==
    UNION { LET educ == SubSeq(EDUCATION_COLS, 1, n)
                occ == SubSeq(OCCUPATION_COLS, 1, 2)
            IN  { File(TRUE, educ \o occ \o <<OtherCol>>,
                       << [c \in {"year", OtherCol} \cup Range(educ \o occ) |->
                             IF c = "year" THEN 2020
                             ELSE IF c = OtherCol THEN 1
                             ELSE IF c \in Range(occ) THEN o[c]
                             ELSE IF c = educ[j] THEN k ELSE 0] >>)
                    : j \in 1..n, k \in 0..MaxCell,
                      o \in [Range(occ) -> 0..MaxCell] }
            : n \in {3, TopK + 1} }

\* a table of one row of 2020 over the columns cols, its cells in
\* 0..MaxCell
OneRowTables(cols) ==
    { [columns |-> <<"year">> \o cols,
       rows |-> << [c \in {"year"} \cup Range(cols) |->
                      IF c = "year" THEN 2020 ELSE v[c]] >>]
        : v \in [Range(cols) -> 0..MaxCell] }

\* the tables of the dashboard page that calculate_filtered_data reads
FilterData ==
    { [countries |-> dk.countries, education |-> e, age |-> a,
       occupation |-> o]
        : dk \in { x \in DashboardDisks : x.status = "ok" },
          e \in OneRowTables(<<"college_graduate", "high_school_graduate">>),
          a \in OneRowTables(<<"25 - 29">>),
          o \in OneRowTables(<<"clerical_workers">>) }

\* the lists a multiselect can return: the options in the order they were
\* picked
Picked(options) ==
    {<<>>} \cup { <<options[i]>> : i \in 1..Len(options) }
    \cup { <<options[p[1]], options[p[2]]>>
             : p \in { q \in (1..Len(options)) \X (1..Len(options))
                         : q[1] /= q[2] } }

\* the greatest count of an occupation in the tables of the shares
MaxPeople == 3

\* the scripts of the gender/occupation page
GenderScripts == {"3_EducationOccupation", "4_GenderOccupation"}

\* a row of occu_df: a year and a count for each occupation column
OccuRow(y, counts) ==
    [c \in {"year"} \cup Range(occu_columns) |->
        IF c = "year" THEN y ELSE counts[c]]

\* a row of sex_df
SexRow(y, male, female) == [year |-> y, Male |-> male, Female |-> female]

\* the years of the rows of sex_df: the years of occu_df and a year
\* before them
SexYears == Years \cup {MinOf(Years) - 1}

\* the tables of sex_df: empty, one row, or two rows of which the second
\* counts one man and one woman
SexTables ==
    LET rows == { SexRow(y, m, f) : y \in SexYears, m \in 0..MaxCount,
                                    f \in 0..MaxCount }
    IN  {<<>>} \cup { <<r>> : r \in rows }
        \cup { <<r, SexRow(y, 1, 1)>> : r \in rows, y \in SexYears }

\* the tables load_data returns: one occupation row with every count in
\* 0..MaxCell beside the gender totals of its year, one occupation row
\* of two counted occupations beside any gender table, or a row whose
\* first count times either share is a half that the doubles miss
GenderTables ==
    { [occu_df |-> <<OccuRow(2020, [c \in Range(occu_columns) |->
                                      IF c = occu_columns[1] THEN 11 ELSE 0])>>,
       sex_df |-> <<SexRow(2020, 15, 7)>>] }
    \cup
    { [occu_df |-> <<OccuRow(2020, counts)>>,
       sex_df |-> <<SexRow(2020, 1, 1)>>]
        : counts \in [Range(occu_columns) -> 0..MaxCell] }
    \cup
    { [occu_df |-> <<OccuRow(y, [c \in Range(occu_columns) |->
                                   IF c = occu_columns[1] THEN k
                                   ELSE IF c = occu_columns[2] THEN j
                                   ELSE 0])>>,
       sex_df |-> sex]
        : y \in Years, k \in 0..MaxPeople, j \in 0..1, sex \in SexTables }

----------------------------------------------------------------------------
(* The state machines.                                                     *)

\* nothing has been called
Idle ==
    /\ pc = "idle"
    /\ educ_in = NoneDF
    /\ occ_in = NoneDF
    /\ joint_df = NoneDF
    /\ insight = NoInsight
    /\ hm = NoResult(0, "idle", FALSE, DF(<<>>), DF(<<>>), <<>>)
    /\ dash = NoChart("idle", FALSE, <<>>)
    /\ label = NoName
    /\ prep = NoPrep
    /\ passed = <<NoneDF, NoneDF>>
    /\ sess = [s \in Sessions |-> NewSession]
    /\ actor = 0
    /\ selected = NoSelection
    /\ reordered = NoReordered
    /\ metrics = NoMetrics
    /\ filtered = NoFiltered
    /\ cum_total = NoCumTotal
    /\ gender = NoGender
    /\ widgets = NoWidgets

\* no page has run a loader
Unloaded ==
    /\ data = NoData
    /\ main = NoMain
    /\ proc = NoProc
    /\ load = NoLoad

\* the heatmap module over a CSV
Init ==
    /\ page = "educ_occ_heatmap"
    /\ file \in Files
    /\ disk = NoDisk
    /\ Unloaded
    /\ Idle

\* get_heatmaps(year)
GetHeatmaps ==
    /\ page = "educ_occ_heatmap"
    /\ proc.reads < MaxCalls
    /\ \E year \in RequestYears :
        \E educ_totals \in RankOrders(year, file) :
            /\ hm' = get_heatmaps(year, file, educ_totals)
            /\ pc' = "get_heatmaps"
            /\ joint_df' = NoneDF
            /\ insight' = NoInsight
            /\ proc' = [proc EXCEPT !.reads = @ + 1]
            /\ UNCHANGED <<file, educ_in, occ_in, data, dash>>
            /\ UNCHANGED <<nameVars, ctxVars, passed, disk, load>>

\* extract_insight on the top or on the bottom joint of get_heatmaps
InsightOfHeatmap ==
    /\ pc = "get_heatmaps"
    /\ ~hm.raised
    /\ \E j \in {hm.top_joint, hm.bottom_joint} :
           /\ joint_df' = j
           /\ insight' = extract_insight(j)
    /\ pc' = "insight_of_heatmap"
    /\ UNCHANGED <<file, educ_in, occ_in, hm, data, dash>>
    /\ UNCHANGED pageVars

Next == GetHeatmaps \/ InsightOfHeatmap

Spec == Init /\ [][Next]_vars

\* the functions of the heatmap module called on their own
InitJoint ==
    /\ page = "functions"
    /\ file = NoFile
    /\ disk = NoDisk
    /\ Unloaded
    /\ Idle

\* estimate_joint(educ_df, occ_df)
EstimateJoint ==
    /\ page = "functions"
    /\ pc = "idle"
    /\ \E a \in EducInputs \cup ExampleEduc, b \in OccInputs \cup ExampleOcc :
           /\ passed' = <<a, b>>
           /\ educ_in' = estimate_joint_inputs(a, b)[1]
           /\ occ_in' = estimate_joint_inputs(a, b)[2]
           /\ joint_df' = estimate_joint(a, b)
    /\ pc' = "estimate_joint"
    /\ UNCHANGED <<file, insight, hm, data, dash>>
    /\ UNCHANGED <<nameVars, loadVars, ctxVars>>

\* extract_insight(joint_df) on a joint table of the caller
ExtractInsight ==
    /\ page = "functions"
    /\ pc = "idle"
    /\ \E j \in JointInputs(MaxCells) :
           /\ joint_df' = j
           /\ insight' = extract_insight(j)
    /\ pc' = "extract_insight"
    /\ UNCHANGED <<file, educ_in, occ_in, hm, data, dash>>
    /\ UNCHANGED pageVars

\* extract_insight on the table estimate_joint returned
InsightOfJoint ==
    /\ pc = "estimate_joint"
    /\ insight' = extract_insight(joint_df)
    /\ pc' = "insight_of_joint"
    /\ UNCHANGED <<file, educ_in, occ_in, joint_df, hm, data, dash>>
    /\ UNCHANGED pageVars

NextJoint == EstimateJoint \/ ExtractInsight \/ InsightOfJoint

SpecJoint == InitJoint /\ [][NextJoint]_vars

\* the dashboard page over the countries table it has loaded
InitDash ==
    /\ page = "1_Dashboard"
    /\ file = NoFile
    /\ data \in [countries : CountryTables]
    /\ main = NoMain
    /\ disk = [status |-> "ok", countries |-> data.countries, main |-> NoMain]
    /\ proc = LoadedProc
    /\ load = StoppingPage(load_all_data("ok", "empty"))
    /\ Idle

\* the top-destinations block of render_trends_and_destinations, for a
\* selected year, the slider's top_n, and the filters of the session: none,
\* or some, with the filtered total that calculate_filtered_data found
RenderTopDestinations ==
    /\ page = "1_Dashboard"
    /\ pc = "idle"
    /\ \E selected_year \in Years, top_n \in SliderMin..SliderMax,
          any_filter \in BOOLEAN, filtered_total \in 0..MaxMigrants :
           /\ ~any_filter => filtered_total = 0
           /\ dash' = TopDestinations(
                         data, selected_year, any_filter,
                         IF any_filter THEN filtered_total
                         ELSE UnfilteredTotal(data, selected_year),
                         top_n)
    /\ pc' = "top_destinations"
    /\ UNCHANGED <<file, educ_in, occ_in, joint_df, insight, hm, data>>
    /\ UNCHANGED pageVars

NextDash == RenderTopDestinations

SpecDash == InitDash /\ [][NextDash]_vars

\* the heatmap module and the dashboard page, each over its own table
SpecRank == (Init \/ InitDash) /\ [][Next \/ NextDash]_vars

\* the dashboard page before it names a column (the column names are drawn
\* from Keys), or the migration page over the table it has loaded
InitNames ==
    /\ file = NoFile
    /\ data = NoData
    /\ load = StoppingPage(load_all_data("ok", "empty"))
    /\ proc = LoadedProc
    /\ \/ /\ page = "1_Dashboard"
          /\ main = NoMain
          /\ disk = [status |-> "ok", countries |-> data.countries,
                     main |-> NoMain]
       \/ /\ page = "2_MigrationData"
          /\ main \in MainTables
          /\ disk = [status |-> "ok", countries |-> data.countries,
                     main |-> main]
    /\ Idle

\* the top-destinations list names a country column
NameTopDestination ==
    /\ page = "1_Dashboard"
    /\ pc = "idle"
    /\ \E country \in Keys : label' = TopDestinationName(country)
    /\ pc' = "name"
    /\ UNCHANGED <<heatVars, dashVars, main, prep>>
    /\ UNCHANGED <<loadVars, ctxVars, passed>>

\* the world map names a country column
NameWorldMap ==
    /\ page = "1_Dashboard"
    /\ pc = "idle"
    /\ \E country \in Keys : label' = WorldMapName(country)
    /\ pc' = "name"
    /\ UNCHANGED <<heatVars, dashVars, main, prep>>
    /\ UNCHANGED <<loadVars, ctxVars, passed>>

\* the origin-regions chart names a region column
NameOriginRegion ==
    /\ page = "1_Dashboard"
    /\ pc = "idle"
    /\ \E region \in Keys : label' = OriginRegionName(region)
    /\ pc' = "name"
    /\ UNCHANGED <<heatVars, dashVars, main, prep>>
    /\ UNCHANGED <<loadVars, ctxVars, passed>>

\* df = processor.prepare_main_df() of the migration page
PrepareMainDf ==
    /\ page = "2_MigrationData"
    /\ pc = "idle"
    /\ main' = prepare_main_df(main).main
    /\ prep' = prepare_main_df(main).result
    /\ pc' = "prepare_main_df"
    /\ UNCHANGED <<heatVars, dashVars, label>>
    /\ UNCHANGED <<loadVars, ctxVars, passed>>

NextNames ==
    NameTopDestination \/ NameWorldMap \/ NameOriginRegion \/ PrepareMainDf

SpecNames == InitNames /\ [][NextNames]_vars

\* a process that has read nothing: the heatmap module over a CSV, or a
\* page over its files
InitLoad ==
    /\ \/ /\ page = "educ_occ_heatmap"
          /\ file \in LoadFiles
          /\ disk = NoDisk
       \/ /\ page = "1_Dashboard"
          /\ file = NoFile
          /\ disk \in DashboardDisks
       \/ /\ page = "2_MigrationData"
          /\ file = NoFile
          /\ disk \in MigrationDisks
       \/ /\ page \in {"5_SupplementaryDataset",
                       "Matthew/5_SupplementaryDataset"}
          /\ file = NoFile
          /\ disk \in HealthDisks
    /\ Unloaded
    /\ Idle

\* available_years()
AvailableYears ==
    /\ page = "educ_occ_heatmap"
    /\ proc.reads < MaxCalls
    /\ proc' = [proc EXCEPT !.reads = @ + 1, !.years = available_years(file)]
    /\ pc' = "available_years"
    /\ UNCHANGED <<heatVars, dashVars, nameVars, ctxVars, passed, disk, load>>

\* a run of pages/1_Dashboard.py up to the construction of the Dashboard
RunDashboard ==
    /\ page = "1_Dashboard"
    /\ proc.runs < MaxCalls
    /\ LET r == load_all_data(disk.status, proc.cache)
       IN  /\ load' = StoppingPage(r)
           /\ proc' = AfterRun(proc, r)
           /\ data' = IF r.returned = "value"
                      THEN [countries |-> disk.countries] ELSE data
    /\ pc' = "loaded"
    /\ UNCHANGED <<heatVars, dash, nameVars, ctxVars, passed, disk>>

\* a run of pages/2_MigrationData.py up to df = processor.prepare_main_df()
RunMigration ==
    /\ page = "2_MigrationData"
    /\ proc.runs < MaxCalls
    /\ LET r == load_all_data(disk.status, proc.cache)
       IN  /\ load' = StoppingPage(r)
           /\ proc' = AfterRun(proc, r)
           /\ main' = IF r.returned = "value"
                      THEN prepare_main_df(disk.main).main ELSE main
           /\ prep' = IF r.returned = "value"
                      THEN prepare_main_df(disk.main).result ELSE prep
    /\ pc' = "loaded"
    /\ UNCHANGED <<heatVars, dashVars, label, ctxVars, passed, disk>>

\* a run of pages/5_SupplementaryDataset.py
RunSupplementary ==
    /\ page = "5_SupplementaryDataset"
    /\ proc.runs < MaxCalls
    /\ LET r == load_health_data(disk.status, proc.cache)
       IN  /\ load' = GuardedPage(r)
           /\ proc' = AfterRun(proc, r)
    /\ pc' = "loaded"
    /\ UNCHANGED <<heatVars, dashVars, nameVars, ctxVars, passed, disk>>

\* a run of data/Matthew/5_SupplementaryDataset.py
RunSupplementaryMatthew ==
    /\ page = "Matthew/5_SupplementaryDataset"
    /\ proc.runs < MaxCalls
    /\ LET r == load_health_data(disk.status, proc.cache)
       IN  /\ load' = UnpackingPage(r)
           /\ proc' = AfterRun(proc, r)
    /\ pc' = "loaded"
    /\ UNCHANGED <<heatVars, dashVars, nameVars, ctxVars, passed, disk>>

NextLoad ==
    \/ AvailableYears
    \/ GetHeatmaps
    \/ RunDashboard
    \/ RunMigration
    \/ RunSupplementary
    \/ RunSupplementaryMatthew

SpecLoad == InitLoad /\ [][NextLoad]_vars

\* the transforms, each over its own tables: get_heatmaps over a CSV of two
\* count columns, the functions called on their own, the naming steps of
\* the pages
InitFrames ==
    \/ Init /\ file \in LoadFiles
    \/ InitJoint
    \/ InitNames

SpecFrames == InitFrames /\ [][Next \/ NextJoint \/ NextNames]_vars

\* the dashboard page over the countries table it has loaded, before any
\* session has opened it
InitSessions ==
    /\ page = "1_Dashboard"
    /\ file = NoFile
    /\ disk \in { d \in DashboardDisks : d.status = "ok" }
    /\ data = [countries |-> disk.countries]
    /\ main = NoMain
    /\ proc = LoadedProc
    /\ load = StoppingPage(load_all_data("ok", "empty"))
    /\ Idle

\* what the script threads of the sessions leave alone
ThreadFrame ==
    UNCHANGED <<heatVars, dashVars, nameVars, loadVars, pc, page, passed,
                selected, reordered, viewVars>>

\* the selections the browsers of the two sessions hold in the three
\* multiselects when Apply is clicked
AppliedSelections ==
    { [NoLocals EXCEPT !.education_filter = e]
        : e \in Selections(EducationOptions) }

\* what the three visualization widgets return over the stored options
\* cur: the stored options, or, when the run was started by a change of
\* one of the three widgets, the stored options with that change
VisualizationChoices(cur, trigger) ==
    LET same == [NoLocals EXCEPT !.map_colorscale = cur.map_colorscale,
                                 !.top_n_countries = cur.top_n_countries,
                                 !.chart_height = cur.chart_height]
    IN  IF ~trigger THEN { [w |-> same, trigger |-> FALSE] }
        ELSE { [w |-> same, trigger |-> TRUE] }
             \cup { [w |-> [same EXCEPT !.map_colorscale = c],
                     trigger |-> FALSE] : c \in Colorscales \ {same.map_colorscale} }
             \cup { [w |-> [same EXCEPT !.top_n_countries = n],
                     trigger |-> FALSE] : n \in TopNChoices \ {same.top_n_countries} }
             \cup { [w |-> [same EXCEPT !.chart_height = h],
                     trigger |-> FALSE] : h \in ChartHeights \ {same.chart_height} }

\* a script run of the session s starts, on an interaction of its browser
\* or on the st.rerun() that ended the run before: Dashboard.__init__
\* takes its copy of the cached tables and FilterManager.__init__ calls
\* initialize_filters, which tests 'filters_initialized'. In the run that
\* st.rerun() starts nothing is clicked and no widget is changed
StartRun ==
    /\ page = "1_Dashboard"
    /\ \E s \in Sessions :
        /\ sess[s].at = "idle"
        /\ LET at == IF SessionState(sess, s).filters_initialized
                     THEN "multiselect" ELSE "initialize_filters"
               loaded == [sess EXCEPT ![s].data_dict = data]
           IN  sess' = Goto(loaded, s, at, 1, ~sess[s].rerun, NoLocals)
        /\ actor' = s
    /\ ThreadFrame

\* one statement of initialize_filters
InitializeFilters ==
    /\ page = "1_Dashboard"
    /\ \E s \in Sessions :
        /\ sess[s].at = "initialize_filters"
        /\ LET k == sess[s].k
               written == ExecuteIn(sess, s, InitializeStatements[k])
           IN  sess' = IF k < Len(InitializeStatements)
                       THEN Goto(written, s, "initialize_filters", k + 1,
                                 sess[s].trigger, NoLocals)
                       ELSE Goto(written, s, "multiselect", 1,
                                 sess[s].trigger, NoLocals)
        /\ actor' = s
    /\ ThreadFrame

\* the three multiselects and the Apply button of render_sidebar_controls:
\* the button returns True in the run its click started, with the
\* selections the browser holds
Multiselect ==
    /\ page = "1_Dashboard"
    /\ \E s \in Sessions :
        /\ sess[s].at = "multiselect"
        /\ \/ /\ sess[s].trigger
              /\ \E w \in AppliedSelections :
                     sess' = Goto(sess, s, "apply", 1, FALSE, w)
           \/ sess' = Goto(sess, s, "visualization", 1, sess[s].trigger,
                           NoLocals)
        /\ actor' = s
    /\ ThreadFrame

\* one statement under the Apply button; st.rerun() follows the third
ApplyFilters ==
    /\ page = "1_Dashboard"
    /\ \E s \in Sessions :
        /\ sess[s].at = "apply"
        /\ LET k == sess[s].k
               statements == ApplyStatements(sess[s].w)
               written == ExecuteIn(sess, s, statements[k])
           IN  sess' = IF k < Len(statements)
                       THEN Goto(written, s, "apply", k + 1, FALSE, sess[s].w)
                       ELSE EndRun(written, s, TRUE)
        /\ actor' = s
    /\ ThreadFrame

\* the three visualization widgets, each drawn with the stored option as
\* its index= or value=
VisualizationWidgets ==
    /\ page = "1_Dashboard"
    /\ \E s \in Sessions :
        /\ sess[s].at = "visualization"
        /\ \E c \in VisualizationChoices(SessionState(sess, s),
                                          sess[s].trigger) :
               sess' = Goto(sess, s, "store", 1, c.trigger, c.w)
        /\ actor' = s
    /\ ThreadFrame

\* one statement of the store of the visualization options
StoreOptions ==
    /\ page = "1_Dashboard"
    /\ \E s \in Sessions :
        /\ sess[s].at = "store"
        /\ LET k == sess[s].k
               statements == StoreStatements(sess[s].w)
               written == ExecuteIn(sess, s, statements[k])
           IN  sess' = IF k < Len(statements)
                       THEN Goto(written, s, "store", k + 1, sess[s].trigger,
                                 sess[s].w)
                       ELSE Goto(written, s, "buttons", 1, sess[s].trigger,
                                 NoLocals)
        /\ actor' = s
    /\ ThreadFrame

\* the Refresh and the Reset button: Refresh ends the run in st.rerun(),
\* Reset calls reset_filters, and with neither clicked
\* render_sidebar_controls returns
ActionButtons ==
    /\ page = "1_Dashboard"
    /\ \E s \in Sessions :
        /\ sess[s].at = "buttons"
        /\ \/ /\ sess[s].trigger
              /\ sess' = EndRun(sess, s, TRUE)
           \/ /\ sess[s].trigger
              /\ sess' = Goto(sess, s, "reset_filters", 1, FALSE, NoLocals)
           \/ sess' = Goto(sess, s, "get_filters", 1, FALSE, NoLocals)
        /\ actor' = s
    /\ ThreadFrame

\* one statement of reset_filters; st.rerun() follows the sixth
ResetFilters ==
    /\ page = "1_Dashboard"
    /\ \E s \in Sessions :
        /\ sess[s].at = "reset_filters"
        /\ LET k == sess[s].k
               written == ExecuteIn(sess, s, ResetStatements[k])
           IN  sess' = IF k < Len(ResetStatements)
                       THEN Goto(written, s, "reset_filters", k + 1, FALSE,
                                 NoLocals)
                       ELSE EndRun(written, s, TRUE)
        /\ actor' = s
    /\ ThreadFrame

\* filters = self.filter_manager.get_filters() of Dashboard.run and the
\* rest of the run, which reads the attributes and writes none
GetFilters ==
    /\ page = "1_Dashboard"
    /\ \E s \in Sessions :
        /\ sess[s].at = "get_filters"
        /\ sess' = EndRun(sess, s, FALSE)
        /\ actor' = s
    /\ ThreadFrame

NextSessions ==
    \/ StartRun \/ InitializeFilters \/ Multiselect \/ ApplyFilters
    \/ VisualizationWidgets \/ StoreOptions \/ ActionButtons
    \/ ResetFilters \/ GetFilters

\* the migration page over the table it has loaded, or the dashboard page
\* over its countries table, before the year control has run
InitYears ==
    \/ InitNames /\ page = "2_MigrationData"
    \/ InitSessions

\* the year slider of the migration page, over the table prepare_main_df
\* returned; the script run ends here when the slider raises
MigrationYearSlider ==
    /\ page = "2_MigrationData"
    /\ pc = "prepare_main_df"
    /\ ~prep.raised
    /\ selected' \in year_slider([i \in 1..Len(prep.df) |-> prep.df[i].year])
    /\ pc' = IF selected'.raised THEN "StreamlitAPIException"
             ELSE "selected_year"
    /\ UNCHANGED <<heatVars, dashVars, nameVars, loadVars, page, sess, actor,
                   passed, reordered, viewVars>>

\* the year selectbox of render_sidebar_controls, over the year column of
\* the education table that was loaded with the countries table
DashboardYearSelect ==
    /\ page = "1_Dashboard"
    /\ pc = "idle"
    /\ \E education_year \in EducationYearColumns :
           selected' \in year_selectbox(education_year)
    /\ pc' = "selected_year"
    /\ UNCHANGED <<heatVars, dashVars, nameVars, loadVars, page, sess, actor,
                   passed, reordered, viewVars>>

NextYears == PrepareMainDf \/ MigrationYearSlider \/ DashboardYearSelect

SpecYears == InitYears /\ [][NextYears]_vars

\* the heatmap module over a CSV whose education counts are mostly equal
InitOrder ==
    /\ page = "educ_occ_heatmap"
    /\ file \in SparseFiles
    /\ disk = NoDisk
    /\ Unloaded
    /\ Idle

\* get_heatmaps(year) over the CSV and over the CSV with its columns in
\* another order
GetHeatmapsReordered ==
    /\ page = "educ_occ_heatmap"
    /\ pc = "idle"
    /\ \E year \in RequestYears, cols \in ColumnOrders(file.cols),
          build \in Builds :
           /\ hm' = get_heatmaps_reordered(year, file, cols, build).hm
           /\ reordered' =
                  get_heatmaps_reordered(year, file, cols, build).reordered
    /\ pc' = "get_heatmaps"
    /\ proc' = [proc EXCEPT !.reads = @ + 2]
    /\ UNCHANGED <<file, educ_in, occ_in, joint_df, insight, dashVars,
                   nameVars, page, sess, actor, selected, passed, disk, load,
                   viewVars>>

NextOrder == GetHeatmapsReordered

SpecOrder == InitOrder /\ [][NextOrder]_vars

\* render_metrics for a selected year
RenderMetrics ==
    /\ page = "1_Dashboard"
    /\ pc = "idle"
    /\ \E selected_year \in Years :
           metrics' = render_metrics(data, selected_year)
    /\ pc' = "render_metrics"
    /\ UNCHANGED <<heatVars, dashVars, nameVars, loadVars, page, sess, actor,
                   selected, reordered, passed, filtered, cum_total, gender,
                   widgets>>

\* the blocks of the dashboard page that show the destinations of a year
NextBlocks == RenderMetrics \/ RenderTopDestinations

SpecBlocks == InitDash /\ [][NextBlocks]_vars

\* the dashboard page over the tables it has loaded
InitFilter ==
    /\ page = "1_Dashboard"
    /\ file = NoFile
    /\ data \in FilterData
    /\ main = NoMain
    /\ disk = [status |-> "ok", countries |-> data.countries, main |-> NoMain]
    /\ proc = LoadedProc
    /\ load = StoppingPage(load_all_data("ok", "empty"))
    /\ Idle

\* calculate_filtered_data for a selected year and the filters of the
\* session
CalculateFilteredData ==
    /\ page = "1_Dashboard"
    /\ pc = "idle"
    /\ \E selected_year \in Years,
          education \in Picked(all_education_options),
          age \in Picked(all_age_options),
          occupation \in Picked(all_occupation_options) :
           filtered' = calculate_filtered_data(
                           data, selected_year,
                           Filters(education, age, occupation))
    /\ pc' = "calculate_filtered_data"
    /\ UNCHANGED <<heatVars, dashVars, nameVars, loadVars, page, sess, actor,
                   selected, reordered, passed, metrics, cum_total, gender,
                   widgets>>

NextFilter == CalculateFilteredData

SpecFilter == InitFilter /\ [][NextFilter]_vars

\* the dashboard page over a countries table, before its one session has
\* opened it
InitControls ==
    /\ InitSessions
    /\ \A c \in Range(COUNTRY_COLS) : disk.countries.rows[1][c] = 1

\* the script run of the first session that follows the run recorded in
\* widgets, with the widget values w, up to the return of
\* render_sidebar_controls or the st.rerun() that ends the run
SidebarRunWith(w) ==
    /\ sess' = AfterRunOf(sess, 1,
                          render_sidebar_controls(sess[1].state, w))
    /\ widgets' = w
    /\ actor' = 1
    /\ pc' = "render_sidebar_controls"
    /\ UNCHANGED <<heatVars, dashVars, nameVars, loadVars, page, passed,
                   selected, reordered, metrics, filtered, cum_total, gender>>

\* a run that no action on the six widgets or the buttons started: the
\* first run of the session, the run st.rerun() starts, or a run started
\* by another control of the page
SidebarRerun ==
    /\ page = "1_Dashboard"
    /\ SidebarRunWith(sidebar_widgets(sess[1].state, widgets, "none", 0,
                                      "none"))

\* a run started by a click on one of the three buttons drawn in the
\* browser
SidebarClick ==
    /\ page = "1_Dashboard"
    /\ widgets.drawn /\ ~sess[1].rerun
    /\ \E button \in {"apply", "refresh", "reset"} :
           SidebarRunWith(sidebar_widgets(sess[1].state, widgets, "none", 0,
                                          button))

\* a run started by the user changing one of the six widgets drawn in the
\* browser
SidebarChange ==
    /\ page = "1_Dashboard"
    /\ widgets.drawn /\ ~sess[1].rerun
    /\ \E name \in WidgetNames :
           \E to \in WidgetOptions(name) :
               SidebarRunWith(sidebar_widgets(sess[1].state, widgets, name,
                                              to, "none"))

\* one script run of the first session
SidebarRun == SidebarRerun \/ SidebarClick \/ SidebarChange

NextControls == SidebarRun

SpecControls == InitControls /\ [][NextControls]_vars

\* the script threads of the two sessions over one countries table, their
\* statements interleaved in any order
SpecSessions == InitControls /\ [][NextSessions]_vars

\* the sidebar figure of the migration page for the selected year
CumulativeTotal ==
    /\ page = "2_MigrationData"
    /\ pc = "selected_year"
    /\ cum_total' = cum_total_migrants(prep.df, selected.year)
    /\ pc' = "cum_total_migrants"
    /\ UNCHANGED <<heatVars, dashVars, nameVars, loadVars, page, sess, actor,
                   selected, reordered, passed, metrics, filtered, gender,
                   widgets>>

\* the run of the migration page down to its sidebar figure
NextMigration == PrepareMainDf \/ MigrationYearSlider \/ CumulativeTotal

\* the migration page over the main table it has loaded
InitMigration == InitNames /\ page = "2_MigrationData"

SpecMigration == InitMigration /\ [][NextMigration]_vars

\* a gender/occupation page over the tables it has loaded
InitGender ==
    /\ page \in GenderScripts
    /\ file = NoFile
    /\ disk = NoDisk
    /\ data \in GenderTables
    /\ main = NoMain
    /\ proc = LoadedProc
    /\ load = NoLoad
    /\ Idle

\* a run of the script of the page: the year of the selectbox, top_n of
\* the slider and the occupations of the multiselect
GenderPageRun ==
    /\ page \in GenderScripts
    /\ pc = "idle"
    /\ \E selected_year \in Range(Column(data.occu_df, "year")),
          top_n \in TopNs, occupation_multiselect \in Multiselects,
          build \in Builds :
           gender' = gender_page(page, data, selected_year, top_n,
                                 occupation_multiselect, build)
    /\ pc' = "top_show_df"
    /\ UNCHANGED <<heatVars, dashVars, nameVars, loadVars, page, sess, actor,
                   selected, reordered, passed, metrics, filtered, cum_total,
                   widgets>>

NextGender == GenderPageRun

SpecGender == InitGender /\ [][NextGender]_vars

----------------------------------------------------------------------------
(* The claims about estimate_joint and extract_insight (SpecJoint).        *)

\* the sum of the column f of a table
SumOf(df, f) == SeqSum([i \in 1..Len(df.rows) |-> df.rows[i][f]])

\* both inputs hold rows, all of one year, and both totals are positive
JointDefined ==
    /\ ~educ_in.none /\ ~occ_in.none
    /\ Len(educ_in.rows) > 0 /\ Len(occ_in.rows) > 0
    /\ \A i \in 1..Len(educ_in.rows), j \in 1..Len(occ_in.rows) :
           educ_in.rows[i].year = occ_in.rows[j].year
    /\ SumOf(educ_in, "Education_Count") > 0
    /\ SumOf(occ_in, "Occupation_Count") > 0

\* the count the education input gives the category c
CountOfEduc(c) ==
    LET r == CHOOSE r \in Range(educ_in.rows) : r.Educational_Attainment = c
    IN  r.Education_Count

\* the count the occupation input gives the category c
CountOfOcc(c) ==
    LET r == CHOOSE r \in Range(occ_in.rows) : r.Occupation = c
    IN  r.Occupation_Count

\* estimate_joint has returned
Estimated == pc \in {"estimate_joint", "insight_of_joint"}

\* the value of Percent of a cell times the two totals of the inputs, and
\* 100 * count(a) * count(b), as numbers
ScaledPercent(cell) ==
    DyadicTimes(DyadicTimes(cell.Percent, SumOf(educ_in, "Education_Count")),
                SumOf(occ_in, "Occupation_Count"))

ExactProduct(cell) ==
    Float64(100 * CountOfEduc(cell.Educational_Attainment)
                * CountOfOcc(cell.Occupation))

\* the numbers x and y differ by at most tolerance
Within(x, y, tolerance) ==
    /\ DyadicLeq(x, DyadicAdd(y, tolerance))
    /\ DyadicLeq(y, DyadicAdd(x, tolerance))

RECURSIVE Float64Sum(_, _)
Float64Sum(s, acc) ==
    IF s = <<>> THEN acc
    ELSE Float64Sum(Tail(s), RoundToFloat64(DyadicAdd(acc, Head(s))))

\* the tolerance of a sum of percentages: 2^-40, less than 10^-12
SumTolerance == Scaled(Float64(1), -40)

C3_NoneWhenUndefined ==
    (/\ Estimated
     /\ \/ educ_in.none \/ occ_in.none
        \/ Len(educ_in.rows) = 0 \/ Len(occ_in.rows) = 0
        \/ SumOf(educ_in, "Education_Count") = 0
        \/ SumOf(occ_in, "Occupation_Count") = 0)
    => (joint_df.none /\ joint_df.rows = <<>>)

\* None for an education input of two categories whose counts are all 0
C3_Witness ==
    /\ pc = "estimate_joint"
    /\ ~educ_in.none /\ Len(educ_in.rows) = 2
    /\ SumOf(educ_in, "Education_Count") = 0
    /\ ~occ_in.none /\ SumOf(occ_in, "Occupation_Count") > 0
    /\ joint_df.none

\* the orders in which the rows of the sequence t can be written
Orderings(t) ==
    { [i \in 1..Len(t) |-> t[p[i]]] : p \in Perms(1..Len(t)) }

\* C5: for inputs of one year with positive totals, the joint table has
\* exactly |A| * |B| cells, one for each pair (a in A, b in B) and none
\* twice, and the set of cells is the same for every order of the rows of
\* A and of B
C5_CrossProduct ==
    (Estimated /\ JointDefined) =>
        /\ ~joint_df.none
        /\ Len(joint_df.rows) = Len(educ_in.rows) * Len(occ_in.rows)
        /\ \A i \in 1..Len(educ_in.rows), j \in 1..Len(occ_in.rows) :
               Cardinality(
                   { k \in 1..Len(joint_df.rows) :
                       /\ joint_df.rows[k].Educational_Attainment
                          = educ_in.rows[i].Educational_Attainment
                       /\ joint_df.rows[k].Occupation
                          = occ_in.rows[j].Occupation }) = 1
        /\ \A a \in Orderings(educ_in.rows), b \in Orderings(occ_in.rows) :
               Range(estimate_joint(DF(a), DF(b)).rows) = Range(joint_df.rows)

\* six cells for three education and two occupation categories
C5_Witness ==
    /\ pc = "estimate_joint" /\ JointDefined
    /\ Len(educ_in.rows) = 3 /\ Len(occ_in.rows) = 2
    /\ Cardinality(Range(joint_df.rows)) = 6

\* the joint table {(A,B,10), (A,C,40), (D,B,25)}
ExampleJoint == DF(<<Cell("A", "B", 10), Cell("A", "C", 40), Cell("D", "B", 25)>>)

\* C8: extract_insight of a joint table with cells returns the education,
\* occupation and percent of a cell whose Percent is at least that of every
\* cell (for {(A,B,10), (A,C,40), (D,B,25)}: (A, C, 40)); of None or of a
\* table without cells it returns (None, None, None)
C8_StrongestCell ==
    (pc = "extract_insight") =>
        /\ (joint_df.none \/ Len(joint_df.rows) = 0) => insight = NoInsight
        /\ (~joint_df.none /\ Len(joint_df.rows) > 0) =>
               /\ ~insight.none
               /\ \E k \in 1..Len(joint_df.rows) :
                      /\ joint_df.rows[k].Educational_Attainment
                         = insight.Educational_Attainment
                      /\ joint_df.rows[k].Occupation = insight.Occupation
                      /\ joint_df.rows[k].Percent = insight.Percent
               /\ \A k \in 1..Len(joint_df.rows) :
                      DyadicLeq(joint_df.rows[k].Percent, insight.Percent)
        /\ (joint_df = ExampleJoint) =>
               insight = [none |-> FALSE, Educational_Attainment |-> "A",
                          Occupation |-> "C", Percent |-> Float64(40)]

\* the strongest cell of the example is neither its first nor its last
C8_Witness ==
    /\ pc = "extract_insight"
    /\ joint_df = ExampleJoint
    /\ insight.Percent = Float64(40)

\* the category a has the strictly largest count of the education input
StrictMaxEduc(a) ==
    /\ a \in Range(Column(educ_in.rows, "Educational_Attainment"))
    /\ \A i \in 1..Len(educ_in.rows) :
           educ_in.rows[i].Educational_Attainment /= a
           => educ_in.rows[i].Education_Count < CountOfEduc(a)

\* the category b has the strictly largest count of the occupation input
StrictMaxOcc(b) ==
    /\ b \in Range(Column(occ_in.rows, "Occupation"))
    /\ \A j \in 1..Len(occ_in.rows) :
           occ_in.rows[j].Occupation /= b
           => occ_in.rows[j].Occupation_Count < CountOfOcc(b)

\* the education input {college:600, elementary:400} and the occupation
\* input {nurse:300, farmer:700} have been handed to estimate_joint
CollegeFarmerExample ==
    /\ educ_in = DF(<<EducRow(2020, "college", 600),
                      EducRow(2020, "elementary", 400)>>)
    /\ occ_in = DF(<<OccRow(2020, "nurse", 300), OccRow(2020, "farmer", 700)>>)

\* the insight names the pair (a, b)
InsightIs(a, b) ==
    /\ ~insight.none
    /\ insight.Educational_Attainment = a
    /\ insight.Occupation = b

\* C9, as claimed: for inputs of one year with positive totals in which the
\* education category a* and the occupation category b* have the strictly
\* largest counts, extract_insight(estimate_joint(A, B)) is (a*, b*,
\* count(a*)/total(A) * count(b*)/total(B) * 100); {college:600,
\* elementary:400} and {nurse:300, farmer:700} give the cells 18, 42, 12, 28
\* and the result (college, farmer, 42)
C9_EndToEnd ==
    (pc = "insight_of_joint" /\ JointDefined) =>
        /\ \A a \in Range(Column(educ_in.rows, "Educational_Attainment")),
              b \in Range(Column(occ_in.rows, "Occupation")) :
               (StrictMaxEduc(a) /\ StrictMaxOcc(b)) =>
                   /\ InsightIs(a, b)
                   /\ DyadicTimes(
                          DyadicTimes(insight.Percent,
                                      SumOf(educ_in, "Education_Count")),
                          SumOf(occ_in, "Occupation_Count"))
                      = Float64(100 * CountOfEduc(a) * CountOfOcc(b))
        /\ CollegeFarmerExample
           => /\ Column(joint_df.rows, "Percent")
                 = <<Float64(18), Float64(42), Float64(12), Float64(28)>>
              /\ insight = [none |-> FALSE,
                            Educational_Attainment |-> "college",
                            Occupation |-> "farmer", Percent |-> Float64(42)]

\* C9, corrected: for such inputs extract_insight(estimate_joint(A, B)) is
\* (a*, b*, p) with p the float64 value of (count(a*)/total(A)) *
\* (count(b*)/total(B)) * 100.0, which is the Percent of the cell (a*, b*)
\* and differs from the exact rational by at most 2^-50 of it;
\* {college:600, elementary:400} and {nurse:300, farmer:700} give the cells
\* 18, 42, 12 and 27.999999999999996 (the float64 2^-48 below 28) and the
\* result (college, farmer, 42)
C9_EndToEndFloat64 ==
    (pc = "insight_of_joint" /\ JointDefined) =>
        /\ \A a \in Range(Column(educ_in.rows, "Educational_Attainment")),
              b \in Range(Column(occ_in.rows, "Occupation")) :
               (StrictMaxEduc(a) /\ StrictMaxOcc(b)) =>
                   /\ InsightIs(a, b)
                   /\ insight.Percent =
                          Float64Mul(
                              Float64Mul(
                                  Float64Div(CountOfEduc(a),
                                             SumOf(educ_in, "Education_Count")),
                                  Float64Div(CountOfOcc(b),
                                             SumOf(occ_in, "Occupation_Count"))),
                              Float64(100))
                   /\ \E k \in 1..Len(joint_df.rows) :
                          /\ joint_df.rows[k].Educational_Attainment = a
                          /\ joint_df.rows[k].Occupation = b
                          /\ joint_df.rows[k].Percent = insight.Percent
                   /\ LET exact == Float64(100 * CountOfEduc(a) * CountOfOcc(b))
                      IN  Within(DyadicTimes(
                                     DyadicTimes(insight.Percent,
                                         SumOf(educ_in, "Education_Count")),
                                     SumOf(occ_in, "Occupation_Count")),
                                 exact, Scaled(exact, -50))
        /\ CollegeFarmerExample
           => /\ Len(joint_df.rows) = 4
              /\ SubSeq(Column(joint_df.rows, "Percent"), 1, 3)
                 = <<Float64(18), Float64(42), Float64(12)>>
              /\ joint_df.rows[4].Percent /= Float64(28)
              /\ DyadicAdd(joint_df.rows[4].Percent, Scaled(Float64(1), -48))
                 = Float64(28)
              /\ insight = [none |-> FALSE,
                            Educational_Attainment |-> "college",
                            Occupation |-> "farmer", Percent |-> Float64(42)]

\* the strongest pairing of the example: (college, farmer, 42)
C9_Witness ==
    /\ pc = "insight_of_joint" /\ JointDefined
    /\ CollegeFarmerExample
    /\ StrictMaxEduc("college") /\ StrictMaxOcc("farmer")
    /\ insight.Occupation = "farmer"
    /\ insight.Percent = Float64(42)

----------------------------------------------------------------------------
(* The claims about get_heatmaps (Spec) and the top-K selections.          *)

\* the rows of the CSV that load_data gives the year get_heatmaps was asked
YearRows == SelectSeq(file.rows, LAMBDA r : FillNa(r["year"]) = hm.year)

\* get_heatmaps has melted the rows of the year
Melted == hm.stage \in {"done", "no_columns"}

\* the rows of the long table t whose category (its column f) is c
RowsOf(t, f, c) == SelectSeq(t.rows, LAMBDA r : r[f] = c)

\* C4, as claimed: in every cell of the top-10 and of the bottom-10 joint of
\* get_heatmaps, Percent is computed with the sum of the counts of all the
\* education categories of the year and the sum of the counts of all its
\* occupation categories
C4_TotalsOfAllCategories ==
    (hm.stage = "done") =>
        \A j \in {hm.top_joint, hm.bottom_joint} :
            ~j.none =>
                \A k \in 1..Len(j.rows) :
                    j.rows[k].Percent
                    = Percent(j.rows[k].Education_Count,
                              j.rows[k].Occupation_Count,
                              SumOf(hm.educ_df, "Education_Count"),
                              SumOf(hm.occ_df, "Occupation_Count"))

\* a long table has no row of a category outside the recognized columns
\* that the CSV holds
OnlyPresentColumns(t, f, recognized) ==
    \A k \in 1..Len(t.rows) :
        t.rows[k][f] \in Range(recognized) \cap Range(file.cols)

\* C6, as claimed: for a table with a row of the requested year, the melt
\* helpers produce exactly one row for every recognized column the table
\* holds, carrying the column's value for the year, and no row for any
\* other column
C6_OneRowPerColumn ==
    Melted =>
        /\ OnlyPresentColumns(hm.educ_df, "Educational_Attainment", EDUCATION_COLS)
        /\ OnlyPresentColumns(hm.occ_df, "Occupation", OCCUPATION_COLS)
        /\ \A c \in Range(EDUCATION_COLS) \cap Range(file.cols) :
               LET rs == RowsOf(hm.educ_df, "Educational_Attainment", c)
               IN  /\ Len(rs) = 1
                   /\ \E i \in 1..Len(YearRows) :
                          rs[1].Education_Count = FillNa(YearRows[i][c])
        /\ \A c \in Range(OCCUPATION_COLS) \cap Range(file.cols) :
               LET rs == RowsOf(hm.occ_df, "Occupation", c)
               IN  /\ Len(rs) = 1
                   /\ \E i \in 1..Len(YearRows) :
                          rs[1].Occupation_Count = FillNa(YearRows[i][c])

\* the count of the education category c: the sum of its rows
TotalOfCategory(c) ==
    SumOf(DF(RowsOf(hm.educ_df, "Educational_Attainment", c)), "Education_Count")

\* the list sel holds exactly min(k, |S|) distinct members of S, each
\* counting at least as much as every member of S it leaves out
IsTopK(sel, k, S) ==
    /\ Len(sel) = Min(k, Cardinality(S))
    /\ Cardinality(Range(sel)) = Len(sel)
    /\ Range(sel) \subseteq S
    /\ \A s \in Range(sel), t \in S \ Range(sel) :
           TotalOfCategory(s) >= TotalOfCategory(t)

\* the rows of top_df
TopRows == UNION Range(dash.top_df)

\* C7, as claimed: the ranked list top10_educ of get_heatmaps (K = 10) and
\* the top-N selection of the dashboard page hold exactly min(K, |S|)
\* distinct categories of S, each counting at least as much as every
\* category of S that is not selected; fewer than K categories are all
\* returned, without an error
C7_TopK ==
    /\ (hm.stage = "done") =>
           IsTopK(hm.top10_educ, TopK,
                  Range(Column(hm.educ_df.rows, "Educational_Attainment")))
    /\ (pc = "top_destinations" /\ dash.stage /= "no_year") =>
           /\ ~dash.raised
           /\ Cardinality(TopRows) = Min(dash.top_n, Len(dash.country_data))
           /\ TopRows \subseteq Range(dash.country_data)
           /\ \A s \in TopRows, t \in Range(dash.country_data) \ TopRows :
                  s.Migrants >= t.Migrants

\* C10: when the table has no row of the requested year, get_heatmaps
\* returns (None, None, None, None) without raising, and neither a
\* category-count row nor a joint cell is produced
C10_NoRowOfYear ==
    (pc /= "idle" /\ file.hasYear /\ Len(YearRows) = 0) =>
        /\ ~hm.raised
        /\ hm.stage = "no_year"
        /\ hm.top_plot = NonePlot /\ hm.bottom_plot = NonePlot
        /\ hm.top_joint = NoneDF /\ hm.bottom_joint = NoneDF
        /\ hm.educ_df.rows = <<>> /\ hm.occ_df.rows = <<>>
        /\ joint_df = NoneDF /\ insight = NoInsight

\* the year 2020 asked of a table whose two rows are of other years
C10_Witness ==
    /\ pc = "get_heatmaps" /\ hm.year = 2020
    /\ file.hasYear /\ Len(file.rows) = 2 /\ Len(YearRows) = 0
    /\ \E i \in 1..2 : file.rows[i]["year"] = 2019
    /\ hm.stage = "no_year"

\* the recognized columns of a list that the CSV holds
Present(recognized) == Range(recognized) \cap Range(file.cols)

\* C11: when the loaded table holds none of the recognized education
\* columns, or none of the recognized occupation columns, the melt helper of
\* that side returns an empty table and get_heatmaps returns
\* (None, None, None, None); nothing raises
C11_NoRecognizedColumns ==
    (/\ pc /= "idle" /\ file.hasYear
     /\ (Present(EDUCATION_COLS) = {} \/ Present(OCCUPATION_COLS) = {}))
    => /\ ~hm.raised
       /\ hm.stage \in {"no_year", "no_columns"}
       /\ (Len(YearRows) > 0) => hm.stage = "no_columns"
       /\ (Present(EDUCATION_COLS) = {}) => hm.educ_df = DF(<<>>)
       /\ (Present(OCCUPATION_COLS) = {}) => hm.occ_df = DF(<<>>)
       /\ hm.top_plot = NonePlot /\ hm.bottom_plot = NonePlot
       /\ hm.top_joint = NoneDF /\ hm.bottom_joint = NoneDF
       /\ (pc = "insight_of_heatmap") => insight = NoInsight

\* a table with education columns and a row of the year, but with no
\* occupation column: the education side is melted, the result is None
C11_Witness ==
    /\ pc = "get_heatmaps" /\ file.hasYear
    /\ Present(EDUCATION_COLS) /= {} /\ Present(OCCUPATION_COLS) = {}
    /\ Len(YearRows) > 0
    /\ Len(hm.educ_df.rows) > 0 /\ hm.occ_df = DF(<<>>)
    /\ hm.stage = "no_columns" /\ hm.top_plot = NonePlot

----------------------------------------------------------------------------
(* The claims about the display names (SpecNames).                         *)

\* the mapping a place of the dashboard page looks its keys up in
MappingOf(site) ==
    IF site = "origin_regions" THEN region_mapping ELSE country_mapping

\* the raw key title-cased, with its underscores kept or shown as blanks
TitleCased(key) == {Title(key), Title(ReplaceChar(key, "_", " "))}

\* C12, as claimed: for every key that is absent from the mapping, each
\* place that turns a country or region key into a display name (the
\* top-destinations list, the world map and the origin-regions chart of the
\* dashboard page, destination_pretty of the migration page) shows the raw
\* key title-cased
C12_TitleCasedFallback ==
    /\ (pc = "name" /\ ~HasKey(MappingOf(label.site), label.key)) =>
           /\ label.shown
           /\ label.display \in TitleCased(label.key)
    /\ (pc = "prepare_main_df") =>
           \A i \in 1..Len(prep.df) :
               ~HasKey(migration_country_mapping, prep.df[i].destination_clean)
               => prep.df[i].destination_pretty
                  \in TitleCased(prep.df[i].destination_clean)

\* C13, as claimed: for any destination string, those of blanks or of
\* punctuation only and those outside the mapping included,
\* prepare_main_df gives a destination_pretty that is not the empty string,
\* and it never raises
C13_NonEmptyDisplay ==
    (pc = "prepare_main_df") =>
        /\ ~prep.raised
        /\ Len(prep.df) = Len(main)
        /\ \A i \in 1..Len(prep.df) : prep.df[i].destination_pretty /= <<>>

\* a machine-form key: only a-z, 0-9 and underscores, no underscore at
\* either end and no two underscores in a row
IsMachineForm(k) ==
    /\ \A i \in 1..Len(k) : IsKeyChar(k[i]) \/ k[i] = "_"
    /\ (k /= <<>>) => (k[1] /= "_" /\ k[Len(k)] /= "_")
    /\ \A i \in 1..(Len(k) - 1) : ~(k[i] = "_" /\ k[i + 1] = "_")

\* C14: destination_clean, the machine-form key prepare_main_df computes,
\* holds only a-z, 0-9 and underscores, has no underscore at either end and
\* no two underscores in a row, and normalizing it again returns it
\* unchanged
C14_MachineFormKey ==
    (pc = "prepare_main_df") =>
        \A i \in 1..Len(prep.df) :
            LET k == prep.df[i].destination_clean
            IN  /\ IsMachineForm(k)
                /\ DestinationClean(k) = k
                /\ DestinationClean(DestinationCountry(Text(k))) = k

\* "China (P.R.O.C.)", with capitals, a blank and runs of punctuation,
\* becomes china_p_r_o_c
C14_Witness ==
    /\ pc = "prepare_main_df"
    /\ \E i \in 1..Len(prep.df) :
           /\ main[i].destination_country = Text(Str_China_PROC)
           /\ prep.df[i].destination_clean = Str_china_p_r_o_c

----------------------------------------------------------------------------
(* The claims about the loaders (SpecLoad).                                *)

\* C15, as claimed: over any sequence of calls of one process that load
\* the same source path (available_years and get_heatmaps of the heatmap
\* module, the runs of a page), the source is read and parsed at most once
C15_ReadOnce ==
    /\ proc.reads <= 1
    /\ proc.parses <= 1

----------------------------------------------------------------------------
(* The claims about the transforms and their inputs (SpecFrames).          *)

\* every table a call inside get_heatmaps was handed is, when get_heatmaps
\* returns, the table that was handed
InputsLeftAsPassed(h) ==
    \A k \in 1..Len(h.inputs) : h.inputs[k].left = h.inputs[k].passed

\* C16: no transform changes a loaded source table or its inputs: every
\* step leaves the CSV as it was; after estimate_joint returns, the two
\* objects handed to it hold what was handed (no key column); when
\* get_heatmaps returns, the table load_data returned, the year's rows
\* handed to melt_education and melt_occupation, the education melt the
\* selections were taken from and the tables handed to the two calls of
\* estimate_joint hold what they held when they were handed over;
\* after prepare_main_df returns, data["main"] holds what was loaded (no
\* destination_clean or destination_pretty column)
C16_InputsUnchanged ==
    [][ /\ file' = file
        /\ (pc' = "estimate_joint") => (<<educ_in', occ_in'>> = passed')
        /\ (pc' = "get_heatmaps") => InputsLeftAsPassed(hm')
        /\ (pc' = "prepare_main_df") =>
               (main' = main /\ main' = disk'.main) ]_vars

\* get_heatmaps has returned two joint tables: it handed the year's rows
\* to the two melts and the occupation melt to both calls of
\* estimate_joint, and the occupation melt still has its three columns
C16_Witness ==
    /\ pc = "get_heatmaps" /\ hm.stage = "done"
    /\ ~hm.top_joint.none /\ ~hm.bottom_joint.none
    /\ Len(hm.top_joint.rows) > 1
    /\ Len(hm.inputs) = 6
    /\ hm.inputs[5].callee = "estimate_joint"
    /\ hm.inputs[6].callee = "estimate_joint"
    /\ hm.inputs[5].passed[2] = hm.inputs[6].passed[2]
    /\ hm.inputs[6].left[2] = hm.occ_df
    /\ \A j \in 1..Len(hm.occ_df.rows) :
           DOMAIN hm.occ_df.rows[j] = {"year", "Occupation", "Occupation_Count"}

----------------------------------------------------------------------------
(* The claims about the sessions of the dashboard page (SpecSessions).     *)

\* what get_filters reads in a script thread of the session t
FiltersOf(mem, t) == get_filters(SessionState(mem, t))

----------------------------------------------------------------------------
(* The claims about the year controls (SpecYears).                         *)

\* the years of the rows of the table the selected year is applied to: the
\* prepared table of the migration page, the countries table of the
\* dashboard page
FilteredYears ==
    IF page = "2_MigrationData"
    THEN { prep.df[i].year : i \in 1..Len(prep.df) }
    ELSE { data.countries.rows[i]["year"]
             : i \in 1..Len(data.countries.rows) }

\* C18, as claimed: the year a page's year control returns has a row in the
\* table the page filters by it.
C18_SelectedYearPresent ==
    ~selected.none => selected.year \in FilteredYears

----------------------------------------------------------------------------
(* The claim about the uniqueness of the categories of a year (Spec).      *)

\* no two rows of the long table t agree on the category (its column f)
\* and on the year
UniquePairs(t, f) ==
    \A k1, k2 \in 1..Len(t.rows) :
        (t.rows[k1][f] = t.rows[k2][f] /\ t.rows[k1].year = t.rows[k2].year)
            => k1 = k2

\* C19, as claimed: in the two long tables get_heatmaps melts for a year,
\* every pair of a category and a year occurs at most once.
C19_UniqueCategoryYear ==
    Melted =>
        /\ UniquePairs(hm.educ_df, "Educational_Attainment")
        /\ UniquePairs(hm.occ_df, "Occupation")

----------------------------------------------------------------------------
(* The claim about a missing or malformed file (SpecLoad).                 *)

\* a page has run over a file that is missing or malformed
FailedLoad ==
    /\ pc = "loaded"
    /\ page /= "educ_occ_heatmap"
    /\ disk.status /= "ok"

\* C20, as claimed: a page run over a missing or malformed file shows an
\* error, runs no step that unpacks or uses the table, raises no uncaught
\* exception, and attempts the read at most once.
C20_FatalAndReported ==
    FailedLoad =>
        /\ load.error
        /\ ~load.unpacked
        /\ ~load.used
        /\ ~load.uncaught
        /\ load.attempts <= 1

----------------------------------------------------------------------------
(* The claims about the ranking of get_heatmaps (SpecOrder).               *)

\* C21, as claimed: when get_heatmaps ranks a year whose education counts
\* and whose occupation counts both sum to more than 0, neither joint is
\* None; and never is one joint None and the other not.
C21_BothJointsDefined ==
    (hm.stage = "done") =>
        /\ (SumOf(hm.educ_df, "Education_Count") > 0
             /\ SumOf(hm.occ_df, "Occupation_Count") > 0)
                => (~hm.top_joint.none /\ ~hm.bottom_joint.none)
        /\ hm.top_joint.none = hm.bottom_joint.none

\* C22: the lists get_heatmaps ranks do not depend on the order of the
\* columns of the CSV: over the CSV and over the CSV with its columns in
\* any other order, sort_values is handed the same table of totals, and the
\* top-10 and bottom-10 lists come out the same, categories of equal count
\* included.
C22_ColumnOrderIrrelevant ==
    (pc = "get_heatmaps") =>
        /\ reordered.reordered_totals = reordered.totals
        /\ reordered.hm.stage = hm.stage
        /\ reordered.hm.top10_educ = hm.top10_educ
        /\ reordered.hm.bottom10_educ = hm.bottom10_educ

\* three categories, two of them of equal count, ranked over a CSV whose
\* columns were reversed
C22_Witness ==
    /\ pc = "get_heatmaps"
    /\ hm.stage = "done"
    /\ reordered.cols /= file.cols
    /\ reordered.cols[1] = OtherCol
    /\ Len(hm.top10_educ) = 3
    /\ hm.top10_educ[1] = "elementary_graduate"
    /\ hm.top10_educ[2] = "college_level"
    /\ hm.bottom10_educ = hm.top10_educ
    /\ reordered.hm.top10_educ = hm.top10_educ

----------------------------------------------------------------------------
(* The claims about the blocks of the dashboard page (SpecBlocks).         *)

\* C23, as claimed: when the selected year has no row in the countries
\* table, render_metrics returns without raising and names the top
\* destination 'N/A'; and when the year has a row but no country with
\* migrants, the top-destinations block of
\* render_trends_and_destinations does not raise.
C23_NoDestinations ==
    /\ (pc = "render_metrics"
          /\ get_year_data(data.countries, metrics.year).none)
            => (~metrics.raised /\ metrics.top_destination = "N/A")
    /\ (pc = "top_destinations" /\ dash.stage /= "no_year"
          /\ dash.country_data = <<>>)
            => ~dash.raised

----------------------------------------------------------------------------
(* The claim about the empty filters (SpecFilter).                         *)

\* the totals of calculate_filtered_data for the year and the filters of
\* the last call, with one filter replaced
TotalsWith(education, age, occupation) ==
    calculate_filtered_data(data, filtered.year,
                            Filters(education, age, occupation)).totals

\* C24, as claimed: a call of calculate_filtered_data with a filter left
\* empty returns the four totals that it returns with every option of
\* that filter selected, the other two filters being the same.
C24_EmptyIsAll ==
    (pc = "calculate_filtered_data") =>
        LET f == filtered.filters
        IN  /\ f.education = <<>> =>
                   filtered.totals
                   = TotalsWith(all_education_options, f.age, f.occupation)
            /\ f.age = <<>> =>
                   filtered.totals
                   = TotalsWith(f.education, all_age_options, f.occupation)
            /\ f.occupation = <<>> =>
                   filtered.totals
                   = TotalsWith(f.education, f.age, all_occupation_options)

----------------------------------------------------------------------------
(* The claims about the stored filters (SpecControls).                     *)

\* the three data filters of a session state
DataFilters(state) ==
    <<state.education_filter, state.age_filter, state.occupation_filter>>

\* the three visualization options of a session state or of the widgets
VizOptions(r) == <<r.map_colorscale, r.top_n_countries, r.chart_height>>

\* C25: a run without a click on Apply or Reset leaves the three stored
\* filters as they were, whatever the multiselects hold, and stores the
\* colour scale, the top-N and the chart height the widgets returned; a
\* run with Apply clicked stores exactly the three selections of the
\* multiselects.
C25_FiltersOnApplyOnly ==
    [][ LET before == initialize_filters(sess[1].state)
            after == sess'[1].state
        IN  /\ widgets'.button \notin {"apply", "reset"} =>
                   /\ DataFilters(after) = DataFilters(before)
                   /\ VizOptions(after) = VizOptions(widgets')
            /\ widgets'.button = "apply" =>
                   DataFilters(after) = DataFilters(widgets') ]_vars

\* a run in which the user picked an education level and moved the top-N
\* slider without clicking: the stored filter is still the applied age
\* group, the top-N is stored
C25_Witness ==
    /\ pc = "render_sidebar_controls"
    /\ widgets.button = "none"
    /\ widgets.education_filter = <<"College Graduate">>
    /\ widgets.age_filter = <<>>
    /\ widgets.top_n_countries = SliderMin
    /\ sess[1].state.education_filter = <<>>
    /\ sess[1].state.age_filter = <<"25 - 29">>
    /\ sess[1].state.top_n_countries = SliderMin
    /\ ~sess[1].rerun

\* C26: the run in which Reset is clicked leaves the defaults in the
\* session state, whatever the state was and whatever the widgets
\* returned, and get_filters returns the defaults in the run that
\* st.rerun() starts; and a run of a session that has been initialized
\* finds its stored attributes untouched by initialize_filters.
C26_ResetToDefaults ==
    [][ /\ widgets'.button = "reset" =>
               get_filters(sess'[1].state) = get_filters(Defaults(TRUE))
        /\ widgets.button = "reset" =>
               get_filters(sess'[1].state) = get_filters(Defaults(TRUE))
        /\ sess[1].state.filters_initialized =>
               /\ initialize_filters(sess[1].state) = sess[1].state
               /\ sess'[1].state.filters_initialized
               /\ (/\ widgets'.button = "none"
                   /\ VizOptions(widgets') = VizOptions(sess[1].state)) =>
                      sess'[1].state = sess[1].state ]_vars

\* the re-run after a click on Reset that found Plasma, the smallest top-N
\* and an applied education filter in the session, and an age group picked
\* in the multiselect: the defaults are back
C26_Witness ==
    /\ pc = "render_sidebar_controls"
    /\ widgets.button = "reset"
    /\ widgets.map_colorscale = "Plasma"
    /\ widgets.top_n_countries = SliderMin
    /\ widgets.age_filter = <<"25 - 29">>
    /\ sess[1].rerun
    /\ get_filters(sess[1].state) = get_filters(Defaults(TRUE))

----------------------------------------------------------------------------
(* The claim about the cumulative total (SpecMigration).                   *)

\* the sum of the migrants of the rows of the prepared table up to a year
MigrantsUpTo(year) ==
    SeqSum(Column(SelectSeq(prep.df, LAMBDA r : r.year <= year), "migrants"))

\* C27, as claimed: for the year the slider returned, the sidebar figure
\* is the sum of the migrants of all rows of the table whose year is not
\* after the selected year.
C27_CumulativeTotal ==
    (pc = "cum_total_migrants") =>
        cum_total.cum_total_migrants = MigrantsUpTo(cum_total.year)

----------------------------------------------------------------------------
(* The claims about the gender/occupation pages (SpecGender).              *)

\* the occupations of a table
Occupations(rows) == { rows[i].Occupation : i \in 1..Len(rows) }

\* C28, as claimed: the chart shows min(top_n, number of displayed
\* occupations) occupations, none of the displayed occupations it leaves
\* out has a higher Count than one it shows, and the script of the other
\* page shows the same occupations.
C28_TopOccupations ==
    (gender.called /\ gender.raised = "") =>
        LET shown == Occupations(gender.top_show_df)
        IN  /\ Cardinality(shown)
                   = Min(gender.top_n, Len(gender.display_df))
            /\ \A i \in 1..Len(gender.display_df) :
                   gender.display_df[i].Occupation \notin shown =>
                       \A j \in 1..Len(gender.top_show_df) :
                           gender.top_show_df[j].Count
                               >= gender.display_df[i].Count
            /\ \A script \in GenderScripts :
                   Occupations(top_show_df(script, gender.est, gender.top_n,
                                           gender.build)) = shown

\* C29, as claimed: when sex_df has no row of the selected year, the
\* shares are those of the totals of a row of the greatest year of sex_df.
C29_LatestYearFallback ==
    (gender.called /\ gender.fallback /\ gender.raised = "") =>
        \E i \in 1..Len(data.sex_df) :
            /\ \A j \in 1..Len(data.sex_df) :
                   data.sex_df[j].year <= data.sex_df[i].year
            /\ gender.male_share
                   = gender_shares(data.sex_df[i].Male,
                                   data.sex_df[i].Female).male_share
            /\ gender.female_share
                   = gender_shares(data.sex_df[i].Male,
                                   data.sex_df[i].Female).female_share

\* C30: in a run that found gender totals, no division fails, the shares
\* add up to 1 and are 0.5 each when both totals are 0, and the estimates
\* of every displayed occupation are natural numbers whose sum differs
\* from the Count by at most 1.
C30_GenderSplit ==
    (gender.called /\ gender.raised # "IndexError") =>
        /\ gender.raised = ""
        /\ RatAdd(gender.male_share, gender.female_share) = Rat(1, 1)
        /\ (gender.male_total = 0 /\ gender.female_total = 0) =>
               /\ gender.male_share = Rat(1, 2)
               /\ gender.female_share = Rat(1, 2)
        /\ Len(gender.est) = Len(gender.display_df)
        /\ \A i \in 1..Len(gender.est) :
               LET r == gender.est[i]
               IN  /\ r.Male \in Nat /\ r.Female \in Nat
                   /\ r.Male + r.Female - r.Count \in {-1, 0, 1}

\* a run over totals that are both 0 with an occupation of Count 3, whose
\* halves of 1.5 both round to 2, and an occupation of Count 1, whose
\* halves of 0.5 both round to 0
C30_Witness ==
    /\ gender.called /\ gender.raised = ""
    /\ gender.male_total = 0 /\ gender.female_total = 0
    /\ \E i \in 1..Len(gender.est) :
           /\ gender.est[i].Count = 3
           /\ gender.est[i].Male = 2 /\ gender.est[i].Female = 2
    /\ \E i \in 1..Len(gender.est) :
           /\ gender.est[i].Count = 1
           /\ gender.est[i].Male = 0 /\ gender.est[i].Female = 0

====
